---- MODULE Spec2Model ----
(***************************************************************************)
(* Model of bhz-football-bot: the RapidAPI run (bot_agenda_futebol.main)   *)
(* and the four providers (SofaScore, FlashScore, ge_mineiro, ge_globo).   *)
(*                                                                         *)
(* Representation of Python values:                                        *)
(*   str            a sequence of one-character strings                    *)
(*   None / ""      the empty sequence (the code tests both with `not x`)  *)
(*   Optional[rec]  a sequence of zero or one records                      *)
(*   date           [y, m, d]                                              *)
(*   datetime       [y, m, d, h, mi, s, aware, off] (off: UTC offset, h)   *)
(*   "%Y-%m-%d %H:%M:%S" text   the 6-tuple <<y, m, d, h, mi, s>>          *)
(***************************************************************************)
EXTENDS Integers, Sequences, FiniteSets, TLC

VARIABLES
    prog,           \* entry point running: "main", "sofascore", "flashscore", "ge_mineiro", "ge_globo"
    pc,             \* control position of the run
    teams,          \* configured team list (cfg.teams / teams argument)
    date_from,      \* window start (dfrom)
    date_to,        \* window end (dto)
    ti,             \* index of the team the loop is at (1-based)
    ep,             \* index of the endpoint attempt inside search_team_id / fetch_fixtures
    attempt,        \* attempt counter of the retry loop in progress
    backoff,        \* backoff of the retry loop in progress (seconds)
    team_id,        \* team id resolved for the current team (0: None)
    all_matches,    \* all_matches / collected / filtered: records accumulated so far
    seen_events,    \* seen_events set of the SofaScore / FlashScore providers
    endpoint_success_count,
    matches,        \* the list the run emits (deduplicated list of main, return value of a provider)
    posted,         \* payloads handed to OdooClient.post_matches, in call order
    result,         \* how the run ended
    last_resp,      \* the latest GET issued (team, phase, endpoint, attempt) and its response
    paused,         \* milliseconds slept since the latest GET (0: no sleep)
    processed,      \* indices of the teams whose loop iteration has started, in order
    failed,         \* indices of the teams that ended in a recoverable failure
    call            \* a single call of a function of the code: its name, arguments and result

vars == <<prog, pc, teams, date_from, date_to, ti, ep, attempt, backoff, team_id,
          all_matches, seen_events, endpoint_success_count, matches, posted, result,
          last_resp, paused, processed, failed, call>>

\* no single call is under way: the state is that of a run of an entry point
NoCall == [fn |-> "none"]

-----------------------------------------------------------------------------
(* Bounds of the model *)

MaxTeams == 2

-----------------------------------------------------------------------------
(* Characters: str methods and unicodedata as the providers use them.  An accented *)
(* letter is one character, written here with an ASCII name ("e_acute").          *)

UpperChars ==
    <<"A", "B", "C", "D", "E", "F", "G", "H", "I", "J", "K", "L", "M", "N", "O", "P", "Q", "R",
      "S", "T", "U", "V", "W", "X", "Y", "Z", "E_acute">>
LowerChars ==
    <<"a", "b", "c", "d", "e", "f", "g", "h", "i", "j", "k", "l", "m", "n", "o", "p", "q", "r",
      "s", "t", "u", "v", "w", "x", "y", "z", "e_acute">>
DigitChars == <<"0", "1", "2", "3", "4", "5", "6", "7", "8", "9">>

\* characters in code point order, for the comparison of strings
CharOrder ==
    <<"\t", "\n", " ", "-", ".">> \o DigitChars
    \o SubSeq(UpperChars, 1, 26) \o <<"_">> \o SubSeq(LowerChars, 1, 26)
    \o <<"|", "E_acute", "e_acute">>

SeqRange(s) == {s[i] : i \in 1..Len(s)}

\* str.lower() on one character
LowerChar(c) ==
    IF \E i \in 1..Len(UpperChars) : UpperChars[i] = c
    THEN LowerChars[CHOOSE i \in 1..Len(UpperChars) : UpperChars[i] = c]
    ELSE c

\* str.lower()
Lower(s) == [i \in 1..Len(s) |-> LowerChar(s[i])]

\* NFD decomposition of one character with its combining marks (category Mn) dropped
BaseChar(c) ==
    IF c = "e_acute" THEN "e"
    ELSE IF c = "E_acute" THEN "E"
    ELSE IF c = "o_acute" THEN "o"
    ELSE IF c \in {"a_acute", "a_tilde"} THEN "a"
    ELSE IF c = "e_circ" THEN "e"
    ELSE c

\* "".join(ch for ch in unicodedata.normalize("NFD", s) if unicodedata.category(ch) != "Mn")
StripMarks(s) == [i \in 1..Len(s) |-> BaseChar(s[i])]

\* ch.isalnum()
IsAlnum(c) == c \in SeqRange(UpperChars) \cup SeqRange(LowerChars) \cup SeqRange(DigitChars)

\* characters str.strip() removes, and the class \s of re
Whitespace == {" ", "\t", "\n"}

\* the characters of s that are in the set keep, in order
RECURSIVE KeepChars(_, _)
KeepChars(s, keep) ==
    IF s = <<>> THEN <<>>
    ELSE (IF Head(s) \in keep THEN <<Head(s)>> ELSE <<>>) \o KeepChars(Tail(s), keep)

\* the characters of s that are not in the set drop, in order
RECURSIVE DropChars(_, _)
DropChars(s, drop) ==
    IF s = <<>> THEN <<>>
    ELSE (IF Head(s) \in drop THEN <<>> ELSE <<Head(s)>>) \o DropChars(Tail(s), drop)

-----------------------------------------------------------------------------
(* Dictionaries: a dict is the sequence of its <<key, value>> items in insertion order *)

HasKey(d, k) == \E i \in 1..Len(d) : d[i][1] = k

\* d[k] for a key that is present
Value(d, k) == d[CHOOSE i \in 1..Len(d) : d[i][1] = k][2]

\* d.get(k, default)
GetOr(d, k, default) == IF HasKey(d, k) THEN Value(d, k) ELSE default

\* d[k] = v
Put(d, k, v) ==
    IF HasKey(d, k)
    THEN [i \in 1..Len(d) |-> IF d[i][1] = k THEN <<k, v>> ELSE d[i]]
    ELSE Append(d, <<k, v>>)

Keys(d) == [i \in 1..Len(d) |-> d[i][1]]

-----------------------------------------------------------------------------
(* Alias tables of the providers *)

\* providers/sofascore_provider.py TEAM_CANONICAL
SOFA_TEAM_CANONICAL ==
    <<
      <<<<"c", "r", "u", "z", "e", "i", "r", "o">>,
        <<"C", "r", "u", "z", "e", "i", "r", "o">>>>,
      <<<<"c", "r", "u", "z", "e", "i", "r", "o", "e", "c">>,
        <<"C", "r", "u", "z", "e", "i", "r", "o">>>>,
      <<<<"c", "r", "u", "z", "e", "i", "r", "o", "e", "s", "p", "o", "r", "t", "e", "c", "l", "u", "b", "e">>,
        <<"C", "r", "u", "z", "e", "i", "r", "o">>>>,
      <<<<"a", "t", "l", "e", "t", "i", "c", "o", "m", "g">>,
        <<"A", "t", "l", "e", "t", "i", "c", "o", "-", "M", "G">>>>,
      <<<<"a", "t", "l", "e", "t", "i", "c", "o">>,
        <<"A", "t", "l", "e", "t", "i", "c", "o", "-", "M", "G">>>>,
      <<<<"a", "t", "l", "e_acute", "t", "i", "c", "o", "m", "g">>,
        <<"A", "t", "l", "e", "t", "i", "c", "o", "-", "M", "G">>>>,
      <<<<"a", "t", "l", "e_acute", "t", "i", "c", "o", "-", "m", "g">>,
        <<"A", "t", "l", "e", "t", "i", "c", "o", "-", "M", "G">>>>,
      <<<<"a", "t", "l", "e_acute", "t", "i", "c", "o">>,
        <<"A", "t", "l", "e", "t", "i", "c", "o", "-", "M", "G">>>>,
      <<<<"a", "m", "e", "r", "i", "c", "a", "-", "m", "g">>,
        <<"A", "m", "e", "r", "i", "c", "a", "-", "M", "G">>>>,
      <<<<"a", "m", "e_acute", "r", "i", "c", "a", "-", "m", "g">>,
        <<"A", "m", "e", "r", "i", "c", "a", "-", "M", "G">>>>,
      <<<<"a", "m", "e", "r", "i", "c", "a", "m", "g">>,
        <<"A", "m", "e", "r", "i", "c", "a", "-", "M", "G">>>>,
      <<<<"a", "m", "e", "r", "i", "c", "a">>,
        <<"A", "m", "e", "r", "i", "c", "a", "-", "M", "G">>>>,
      <<<<"a", "m", "e_acute", "r", "i", "c", "a">>,
        <<"A", "m", "e", "r", "i", "c", "a", "-", "M", "G">>>>,
      <<<<"a", "m", "e", "r", "i", "c", "a", " ", "m", "i", "n", "e", "i", "r", "o">>,
        <<"A", "m", "e", "r", "i", "c", "a", "-", "M", "G">>>>,
      <<<<"a", "m", "e_acute", "r", "i", "c", "a", " ", "m", "i", "n", "e", "i", "r", "o">>,
        <<"A", "m", "e", "r", "i", "c", "a", "-", "M", "G">>>>,
      <<<<"c", "o", "e", "l", "h", "o">>,
        <<"A", "m", "e", "r", "i", "c", "a", "-", "M", "G">>>>
    >>

\* providers/flashscore_provider.py TEAM_ALIASES
FLASH_TEAM_ALIASES ==
    <<
      <<<<"c", "r", "u", "z", "e", "i", "r", "o">>,
        <<"C", "r", "u", "z", "e", "i", "r", "o">>>>,
      <<<<"c", "r", "u", "z", "e", "i", "r", "o", " ", "e", "c">>,
        <<"C", "r", "u", "z", "e", "i", "r", "o">>>>,
      <<<<"c", "r", "u", "z", "e", "i", "r", "o", " ", "e", "s", "p", "o", "r", "t", "e", " ", "c", "l", "u", "b", "e">>,
        <<"C", "r", "u", "z", "e", "i", "r", "o">>>>,
      <<<<"a", "t", "l", "e", "t", "i", "c", "o", "-", "m", "g">>,
        <<"A", "t", "l", "e", "t", "i", "c", "o", "-", "M", "G">>>>,
      <<<<"a", "t", "l", "e_acute", "t", "i", "c", "o", "-", "m", "g">>,
        <<"A", "t", "l", "e", "t", "i", "c", "o", "-", "M", "G">>>>,
      <<<<"a", "t", "l", "e", "t", "i", "c", "o", " ", "m", "i", "n", "e", "i", "r", "o">>,
        <<"A", "t", "l", "e", "t", "i", "c", "o", "-", "M", "G">>>>,
      <<<<"a", "t", "l", "e_acute", "t", "i", "c", "o", " ", "m", "i", "n", "e", "i", "r", "o">>,
        <<"A", "t", "l", "e", "t", "i", "c", "o", "-", "M", "G">>>>,
      <<<<"a", "t", "l", "e", "t", "i", "c", "o">>,
        <<"A", "t", "l", "e", "t", "i", "c", "o", "-", "M", "G">>>>,
      <<<<"a", "t", "l", "e_acute", "t", "i", "c", "o">>,
        <<"A", "t", "l", "e", "t", "i", "c", "o", "-", "M", "G">>>>,
      <<<<"g", "a", "l", "o">>,
        <<"A", "t", "l", "e", "t", "i", "c", "o", "-", "M", "G">>>>,
      <<<<"a", "m", "e", "r", "i", "c", "a", "-", "m", "g">>,
        <<"A", "m", "e", "r", "i", "c", "a", "-", "M", "G">>>>,
      <<<<"a", "m", "e_acute", "r", "i", "c", "a", "-", "m", "g">>,
        <<"A", "m", "e", "r", "i", "c", "a", "-", "M", "G">>>>,
      <<<<"a", "m", "e", "r", "i", "c", "a", " ", "m", "i", "n", "e", "i", "r", "o">>,
        <<"A", "m", "e", "r", "i", "c", "a", "-", "M", "G">>>>,
      <<<<"a", "m", "e_acute", "r", "i", "c", "a", " ", "m", "i", "n", "e", "i", "r", "o">>,
        <<"A", "m", "e", "r", "i", "c", "a", "-", "M", "G">>>>,
      <<<<"a", "m", "e", "r", "i", "c", "a">>,
        <<"A", "m", "e", "r", "i", "c", "a", "-", "M", "G">>>>,
      <<<<"a", "m", "e_acute", "r", "i", "c", "a">>,
        <<"A", "m", "e", "r", "i", "c", "a", "-", "M", "G">>>>,
      <<<<"c", "o", "e", "l", "h", "o">>,
        <<"A", "m", "e", "r", "i", "c", "a", "-", "M", "G">>>>
    >>

\* providers/ge_mineiro_provider.py TEAM_ALIASES
GE_TEAM_ALIASES ==
    <<
      <<<<"c", "r", "u", "z", "e", "i", "r", "o">>,
        <<"C", "r", "u", "z", "e", "i", "r", "o">>>>,
      <<<<"c", "r", "u", "z", "e", "i", "r", "o", " ", "e", "c">>,
        <<"C", "r", "u", "z", "e", "i", "r", "o">>>>,
      <<<<"c", "r", "u", "z", "e", "i", "r", "o", " ", "e", "s", "p", "o", "r", "t", "e", " ", "c", "l", "u", "b", "e">>,
        <<"C", "r", "u", "z", "e", "i", "r", "o">>>>,
      <<<<"a", "t", "l", "e_acute", "t", "i", "c", "o", "-", "m", "g">>,
        <<"A", "t", "l", "e", "t", "i", "c", "o", "-", "M", "G">>>>,
      <<<<"a", "t", "l", "e", "t", "i", "c", "o", "-", "m", "g">>,
        <<"A", "t", "l", "e", "t", "i", "c", "o", "-", "M", "G">>>>,
      <<<<"a", "t", "l", "e_acute", "t", "i", "c", "o", " ", "m", "i", "n", "e", "i", "r", "o">>,
        <<"A", "t", "l", "e", "t", "i", "c", "o", "-", "M", "G">>>>,
      <<<<"a", "t", "l", "e", "t", "i", "c", "o", " ", "m", "i", "n", "e", "i", "r", "o">>,
        <<"A", "t", "l", "e", "t", "i", "c", "o", "-", "M", "G">>>>,
      <<<<"g", "a", "l", "o">>,
        <<"A", "t", "l", "e", "t", "i", "c", "o", "-", "M", "G">>>>,
      <<<<"a", "m", "e_acute", "r", "i", "c", "a", "-", "m", "g">>,
        <<"A", "m", "e", "r", "i", "c", "a", "-", "M", "G">>>>,
      <<<<"a", "m", "e", "r", "i", "c", "a", "-", "m", "g">>,
        <<"A", "m", "e", "r", "i", "c", "a", "-", "M", "G">>>>,
      <<<<"a", "m", "e_acute", "r", "i", "c", "a", " ", "m", "i", "n", "e", "i", "r", "o">>,
        <<"A", "m", "e", "r", "i", "c", "a", "-", "M", "G">>>>,
      <<<<"a", "m", "e", "r", "i", "c", "a", " ", "m", "i", "n", "e", "i", "r", "o">>,
        <<"A", "m", "e", "r", "i", "c", "a", "-", "M", "G">>>>,
      <<<<"c", "o", "e", "l", "h", "o">>,
        <<"A", "m", "e", "r", "i", "c", "a", "-", "M", "G">>>>
    >>

\* providers/ge_globo_mineiro_provider.py TEAM_ALIASES
GLOBO_TEAM_ALIASES ==
    <<
      <<<<"c", "r", "u", "z", "e", "i", "r", "o">>,
        <<"C", "r", "u", "z", "e", "i", "r", "o">>>>,
      <<<<"c", "r", "u", "z", "e", "i", "r", "o", " ", "e", "c">>,
        <<"C", "r", "u", "z", "e", "i", "r", "o">>>>,
      <<<<"c", "r", "u", "z", "e", "i", "r", "o", " ", "e", "s", "p", "o", "r", "t", "e", " ", "c", "l", "u", "b", "e">>,
        <<"C", "r", "u", "z", "e", "i", "r", "o">>>>,
      <<<<"a", "t", "l", "e_acute", "t", "i", "c", "o", "-", "m", "g">>,
        <<"A", "t", "l", "e", "t", "i", "c", "o", "-", "M", "G">>>>,
      <<<<"a", "t", "l", "e", "t", "i", "c", "o", "-", "m", "g">>,
        <<"A", "t", "l", "e", "t", "i", "c", "o", "-", "M", "G">>>>,
      <<<<"a", "t", "l", "e_acute", "t", "i", "c", "o", " ", "m", "i", "n", "e", "i", "r", "o">>,
        <<"A", "t", "l", "e", "t", "i", "c", "o", "-", "M", "G">>>>,
      <<<<"a", "t", "l", "e", "t", "i", "c", "o", " ", "m", "i", "n", "e", "i", "r", "o">>,
        <<"A", "t", "l", "e", "t", "i", "c", "o", "-", "M", "G">>>>,
      <<<<"a", "t", "l", "e_acute", "t", "i", "c", "o">>,
        <<"A", "t", "l", "e", "t", "i", "c", "o", "-", "M", "G">>>>,
      <<<<"g", "a", "l", "o">>,
        <<"A", "t", "l", "e", "t", "i", "c", "o", "-", "M", "G">>>>,
      <<<<"a", "m", "e_acute", "r", "i", "c", "a", "-", "m", "g">>,
        <<"A", "m", "e", "r", "i", "c", "a", "-", "M", "G">>>>,
      <<<<"a", "m", "e", "r", "i", "c", "a", "-", "m", "g">>,
        <<"A", "m", "e", "r", "i", "c", "a", "-", "M", "G">>>>,
      <<<<"a", "m", "e_acute", "r", "i", "c", "a", " ", "m", "i", "n", "e", "i", "r", "o">>,
        <<"A", "m", "e", "r", "i", "c", "a", "-", "M", "G">>>>,
      <<<<"a", "m", "e", "r", "i", "c", "a", " ", "m", "i", "n", "e", "i", "r", "o">>,
        <<"A", "m", "e", "r", "i", "c", "a", "-", "M", "G">>>>,
      <<<<"a", "m", "e_acute", "r", "i", "c", "a">>,
        <<"A", "m", "e", "r", "i", "c", "a", "-", "M", "G">>>>,
      <<<<"c", "o", "e", "l", "h", "o">>,
        <<"A", "m", "e", "r", "i", "c", "a", "-", "M", "G">>>>
    >>

Min(S) == CHOOSE x \in S : \A y \in S : x <= y
Max(S) == CHOOSE x \in S : \A y \in S : y <= x

\* str.lstrip(chars)
RECURSIVE LStrip(_, _)
LStrip(s, chars) == IF s # <<>> /\ Head(s) \in chars THEN LStrip(Tail(s), chars) ELSE s

\* str.rstrip(chars)
RECURSIVE RStrip(_, _)
RStrip(s, chars) ==
    IF s # <<>> /\ s[Len(s)] \in chars THEN RStrip(SubSeq(s, 1, Len(s) - 1), chars) ELSE s

\* str.strip(chars)
StripChars(s, chars) == RStrip(LStrip(s, chars), chars)

\* str.strip()
Strip(s) == StripChars(s, Whitespace)

\* s[start:] (start counted from 1)
From(s, start) == SubSeq(s, start, Len(s))

\* 1 + s.find(sub, start - 1): the first index at or after start where sub occurs, 0 if none
Find(s, sub, start) ==
    IF \E i \in start..(Len(s) - Len(sub) + 1) : SubSeq(s, i, i + Len(sub) - 1) = sub
    THEN Min({i \in start..(Len(s) - Len(sub) + 1) : SubSeq(s, i, i + Len(sub) - 1) = sub})
    ELSE 0

\* the first index at or after start of a character of the set, 0 if none
FindChar(s, chars, start) ==
    IF \E i \in start..Len(s) : s[i] \in chars
    THEN Min({i \in start..Len(s) : s[i] \in chars})
    ELSE 0

\* s.split(sep) for a one-character sep, and re.split on a class of characters
RECURSIVE Split(_, _)
Split(s, seps) ==
    IF FindChar(s, seps, 1) = 0 THEN <<s>>
    ELSE <<SubSeq(s, 1, FindChar(s, seps, 1) - 1)>> \o Split(From(s, FindChar(s, seps, 1) + 1), seps)

\* sep.join(strings)
RECURSIVE Join(_, _)
Join(strings, sep) ==
    IF strings = <<>> THEN <<>>
    ELSE IF Len(strings) = 1 THEN strings[1]
    ELSE Head(strings) \o sep \o Join(Tail(strings), sep)

\* int(s) of a string of digits
DigitValue(c) == (CHOOSE i \in 1..10 : DigitChars[i] = c) - 1

RECURSIVE int(_)
int(s) == IF s = <<>> THEN 0 ELSE int(SubSeq(s, 1, Len(s) - 1)) * 10 + DigitValue(s[Len(s)])

\* str(n) of a non-negative integer
RECURSIVE str(_)
str(n) == IF n < 10 THEN <<DigitChars[n + 1]>>
          ELSE Append(str(n \div 10), DigitChars[(n % 10) + 1])

\* f"{n:02d}" of a non-negative integer
pad2(n) == IF n < 10 THEN <<"0">> \o str(n) ELSE str(n)

\* the characters of a text in the format "%Y-%m-%d %H:%M:%S"
datetime_text(t) ==
    str(t[1]) \o <<"-">> \o pad2(t[2]) \o <<"-">> \o pad2(t[3]) \o <<" ">>
    \o pad2(t[4]) \o <<":">> \o pad2(t[5]) \o <<":">> \o pad2(t[6])

\* Python's `a in b` on strings
IsSubstring(a, b) ==
    \E i \in 0..(Len(b) - Len(a)) : SubSeq(b, i + 1, i + Len(a)) = a

S_Cruzeiro == <<"C", "r", "u", "z", "e", "i", "r", "o">>
S_AtleticoMG == <<"A", "t", "l", "e", "t", "i", "c", "o", "-", "M", "G">>
S_AmericaMG == <<"A", "m", "e", "r", "i", "c", "a", "-", "M", "G">>
S_Galo == <<"G", "a", "l", "o">>
S_scheduled == <<"s", "c", "h", "e", "d", "u", "l", "e", "d">>
S_Atletico_acc == <<"A", "t", "l", "e_acute", "t", "i", "c", "o">>
S_AtleticoMG_acc == <<"A", "t", "l", "e_acute", "t", "i", "c", "o", "-", "M", "G">>
S_Atletico_Mineiro == <<"A", "t", "l", "e", "t", "i", "c", "o", " ", "M", "i", "n", "e", "i", "r", "o">>
S_Betim == <<"B", "e", "t", "i", "m">>
S_Blank == <<" ", " ">>
S_Brazil == <<"B", "r", "a", "z", "i", "l">>
S_Chile == <<"C", "h", "i", "l", "e">>
S_cruzeiro == Lower(S_Cruzeiro)
S_atleticomg == Lower(S_AtleticoMG)
S_americamg == Lower(S_AmericaMG)

-----------------------------------------------------------------------------
(* difflib, as canonicalize of ge_globo uses it *)

CharRank(c) == CHOOSE i \in 1..Len(CharOrder) : CharOrder[i] = c

\* a < b on strings
RECURSIVE StrLess(_, _)
StrLess(a, b) ==
    IF b = <<>> THEN FALSE
    ELSE IF a = <<>> THEN TRUE
    ELSE IF Head(a) = Head(b) THEN StrLess(Tail(a), Tail(b))
    ELSE CharRank(Head(a)) < CharRank(Head(b))

\* a block of k characters starts at a[i] and at b[j]
common_block(a, b, i, j, k) ==
    /\ i + k - 1 <= Len(a)
    /\ j + k - 1 <= Len(b)
    /\ SubSeq(a, i, i + k - 1) = SubSeq(b, j, j + k - 1)

has_common_block(a, b, k) ==
    \E i \in 1..Len(a) : \E j \in 1..Len(b) : common_block(a, b, i, j, k)

\* the size of the longest common block, from a size k that has one (or 0) on
RECURSIVE longest_block_from(_, _, _)
longest_block_from(a, b, k) ==
    IF has_common_block(a, b, k + 1) THEN longest_block_from(a, b, k + 1) ELSE k

\* the size of the longest common block, 0 if there is none
longest_block(a, b) == longest_block_from(a, b, 0)

\* the longest block that starts at a[i]: the earliest in b
longest_match_at(a, b, i, k) ==
    <<i, Min({j \in 1..Len(b) : common_block(a, b, i, j, k)}), k>>

\* the longest block of size k: the earliest in a
longest_match_of(a, b, k) ==
    IF k = 0 THEN <<0, 0, 0>>
    ELSE longest_match_at(
             a, b, Min({i \in 1..Len(a) : \E j \in 1..Len(b) : common_block(a, b, i, j, k)}), k)

\* SequenceMatcher.find_longest_match over all of a and b: <<i, j, k>>, the longest common
\* block a[i..i+k-1] = b[j..j+k-1], the earliest in a and then the earliest in b
find_longest_match(a, b) == longest_match_of(a, b, longest_block(a, b))

\* number of characters in the matching blocks of SequenceMatcher(None, a, b): the longest
\* block m, and the blocks to its left and to its right
RECURSIVE matching_chars(_, _)
RECURSIVE matching_around(_, _, _)
matching_chars(a, b) == matching_around(a, b, find_longest_match(a, b))

matching_around(a, b, m) ==
    IF m[3] = 0 THEN 0
    ELSE m[3]
         + matching_chars(SubSeq(a, 1, m[1] - 1), SubSeq(b, 1, m[2] - 1))
         + matching_chars(SubSeq(a, m[1] + m[3], Len(a)), SubSeq(b, m[2] + m[3], Len(b)))

\* SequenceMatcher(None, a, b).ratio() as the fraction <<numerator, denominator>>
ratio(a, b) ==
    IF Len(a) + Len(b) = 0 THEN <<1, 1>> ELSE <<2 * matching_chars(a, b), Len(a) + Len(b)>>

\* SequenceMatcher.real_quick_ratio(): the bound on ratio() from the lengths
real_quick_ratio(a, b) ==
    IF Len(a) + Len(b) = 0 THEN <<1, 1>> ELSE <<2 * Min({Len(a), Len(b)}), Len(a) + Len(b)>>

\* b without the first occurrence of the character c
RECURSIVE without_one(_, _)
without_one(b, c) ==
    IF b = <<>> THEN <<>>
    ELSE IF Head(b) = c THEN Tail(b)
    ELSE <<Head(b)>> \o without_one(Tail(b), c)

\* the characters of a that b has, each character of b counted once
RECURSIVE quick_matches(_, _)
quick_matches(a, b) ==
    IF a = <<>> THEN 0
    ELSE IF \E j \in 1..Len(b) : b[j] = Head(a)
    THEN 1 + quick_matches(Tail(a), without_one(b, Head(a)))
    ELSE quick_matches(Tail(a), b)

\* SequenceMatcher.quick_ratio(): the bound on ratio() from the characters
quick_ratio(a, b) ==
    IF Len(a) + Len(b) = 0 THEN <<1, 1>> ELSE <<2 * quick_matches(a, b), Len(a) + Len(b)>>

\* cutoff of get_close_matches in canonicalize, in percent
CLOSE_MATCH_CUTOFF == 75

\* the fraction r is at least the cutoff
at_least_cutoff(r) == r[1] * 100 >= CLOSE_MATCH_CUTOFF * r[2]

\* the test of get_close_matches on one possibility x
is_close_match(x, word) ==
    /\ at_least_cutoff(real_quick_ratio(x, word))
    /\ at_least_cutoff(quick_ratio(x, word))
    /\ at_least_cutoff(ratio(x, word))

\* possibility i scores more than possibility j, or the same with the greater string
better_match(possibilities, word, i, j) ==
    \/ ratio(possibilities[i], word)[1] * ratio(possibilities[j], word)[2]
           > ratio(possibilities[j], word)[1] * ratio(possibilities[i], word)[2]
    \/ /\ ratio(possibilities[i], word)[1] * ratio(possibilities[j], word)[2]
              = ratio(possibilities[j], word)[1] * ratio(possibilities[i], word)[2]
       /\ StrLess(possibilities[j], possibilities[i])

\* heapq.nlargest(1, result): the best of the possibilities whose indices are in good
best_match(possibilities, word, good) ==
    IF good = {} THEN <<>>
    ELSE <<possibilities[CHOOSE i \in good :
               \A j \in good : possibilities[j] = possibilities[i]
                               \/ better_match(possibilities, word, i, j)]>>

\* difflib.get_close_matches(word, possibilities, n=1, cutoff=0.75): zero or one string
get_close_matches(word, possibilities) ==
    best_match(possibilities, word,
               {i \in 1..Len(possibilities) : is_close_match(possibilities[i], word)})

-----------------------------------------------------------------------------
(* Team-name canonicalisation of the providers *)

\* sofascore_provider._normalized_key and flashscore_provider._normalized_key
_normalized_key(value) ==
    KeepChars(Lower(StripMarks(value)),
              SeqRange(UpperChars) \cup SeqRange(LowerChars) \cup SeqRange(DigitChars))

\* sofascore_provider._normalize_name
_normalize_name(value) ==
    IF value = <<>> THEN <<>>
    ELSE GetOr(SOFA_TEAM_CANONICAL, _normalized_key(value), Strip(value))

\* sofascore_provider.SOFASCORE_TEAM_IDS.get(canonical), 0 for None
SOFASCORE_TEAM_IDS(canonical) ==
    IF canonical = S_Cruzeiro THEN 1241
    ELSE IF canonical = S_AtleticoMG THEN 1237
    ELSE IF canonical = S_AmericaMG THEN 1234
    ELSE 0

\* flashscore_provider._canonicalize_team
_canonicalize_team(name) == GetOr(FLASH_TEAM_ALIASES, _normalized_key(name), Strip(name))

\* flashscore_provider.TEAM_PAGES has a page for the canonical name
TEAM_PAGES(canonical) == canonical \in {S_Cruzeiro, S_AtleticoMG, S_AmericaMG}

\* ge_mineiro_provider._canonical_name
_canonical_name(name) == GetOr(GE_TEAM_ALIASES, Lower(Strip(name)), Strip(name))

\* ge_mineiro_provider.TARGET_TEAMS
TARGET_TEAMS == {S_cruzeiro, S_atleticomg, S_americamg}

\* ge_globo_mineiro_provider.normalize_name_key
normalize_name_key(name) ==
    IF name = <<>> THEN <<>>
    ELSE Lower(DropChars(StripMarks(name), Whitespace \cup {"-", "_"}))

RECURSIVE normalized_aliases_from(_, _)
normalized_aliases_from(d, items) ==
    IF items = <<>> THEN d
    ELSE normalized_aliases_from(Put(d, normalize_name_key(Head(items)[1]), Head(items)[2]),
                                 Tail(items))

\* ge_globo_mineiro_provider.NORMALIZED_ALIASES
NORMALIZED_ALIASES == normalized_aliases_from(<<>>, GLOBO_TEAM_ALIASES)

\* canonicalize returning the closest alias itself instead of its canonical name
canonicalize_close_key(name, close) ==
    IF close # <<>> THEN close[1] ELSE Strip(name)

\* canonicalize when no alias is part of the name: the closest alias, else the name
canonicalize_close(name, close) ==
    IF close # <<>> THEN Value(NORMALIZED_ALIASES, close[1]) ELSE Strip(name)

\* canonicalize from the normalised name on
canonicalize_key(name, normalized) ==
    IF HasKey(NORMALIZED_ALIASES, normalized) THEN Value(NORMALIZED_ALIASES, normalized)
    ELSE IF \E i \in 1..Len(NORMALIZED_ALIASES) : IsSubstring(NORMALIZED_ALIASES[i][1], normalized)
    THEN NORMALIZED_ALIASES[Min({i \in 1..Len(NORMALIZED_ALIASES) :
                                    IsSubstring(NORMALIZED_ALIASES[i][1], normalized)})][2]
    ELSE canonicalize_close(name, get_close_matches(normalized, Keys(NORMALIZED_ALIASES)))

\* ge_globo_mineiro_provider.canonicalize
canonicalize(name) ==
    IF name = <<>> THEN name ELSE canonicalize_key(name, normalize_name_key(name))

\* ge_globo_mineiro_provider._normalized_for_comparison
_normalized_for_comparison(name) == normalize_name_key(canonicalize(name))

-----------------------------------------------------------------------------
(* Calendar arithmetic of the datetime library *)

IsLeap(y) == (y % 4 = 0 /\ y % 100 # 0) \/ y % 400 = 0

DaysInMonth(y, m) ==
    IF m = 2 THEN (IF IsLeap(y) THEN 29 ELSE 28)
    ELSE IF m \in {4, 6, 9, 11} THEN 30 ELSE 31

\* date(y, m, d) does not raise ValueError
ValidDate(y, m, d) == y \in 1..9999 /\ m \in 1..12 /\ d \in 1..DaysInMonth(y, m)

Date(y, m, d) == [y |-> y, m |-> m, d |-> d]

\* ordering of dates: a <= b
DateLE(a, b) ==
    \/ a.y < b.y
    \/ a.y = b.y /\ a.m < b.m
    \/ a.y = b.y /\ a.m = b.m /\ a.d <= b.d

\* days since 1970-01-01 of a civil date
DaysFromCivil(y, m, d) ==
    LET yy == IF m <= 2 THEN y - 1 ELSE y
        era == yy \div 400
        yoe == yy - era * 400
        mp == IF m > 2 THEN m - 3 ELSE m + 9
        doy == (153 * mp + 2) \div 5 + d - 1
        doe == yoe * 365 + yoe \div 4 - yoe \div 100 + doy
    IN era * 146097 + doe - 719468

\* civil date of a day number (the proleptic Gregorian calendar of datetime), computed in
\* steps: 400-year era and day of era, year of era, day of year, month counted from March
CivilFromMp(y, doy, mp) ==
    Date(IF mp < 10 THEN y ELSE y + 1,
         IF mp < 10 THEN mp + 3 ELSE mp - 9,
         doy - (153 * mp + 2) \div 5 + 1)

CivilFromDoy(y, doy) == CivilFromMp(y, doy, (5 * doy + 2) \div 153)

CivilFromYoe(era, doe, yoe) ==
    CivilFromDoy(yoe + era * 400, doe - (365 * yoe + yoe \div 4 - yoe \div 100))

CivilFromDoe(era, doe) ==
    CivilFromYoe(era, doe, (doe - doe \div 1460 + doe \div 36524 - doe \div 146096) \div 365)

CivilFromDays(z) == CivilFromDoe((z + 719468) \div 146097, (z + 719468) % 146097)

DateTime(y, m, d, h, mi, s, aware, off) ==
    [y |-> y, m |-> m, d |-> d, h |-> h, mi |-> mi, s |-> s, aware |-> aware, off |-> off]

\* datetime.date()
DateOf(dt) == Date(dt.y, dt.m, dt.d)

\* datetime.utcfromtimestamp(secs): naive datetime holding the UTC clock
DateTimeOn(day, rem) ==
    DateTime(day.y, day.m, day.d, rem \div 3600, (rem % 3600) \div 60, rem % 60, FALSE, 0)

utcfromtimestamp(secs) == DateTimeOn(CivilFromDays(secs \div 86400), secs % 86400)

\* seconds since the epoch of an aware datetime
EpochOf(dt) ==
    DaysFromCivil(dt.y, dt.m, dt.d) * 86400 + (dt.h - dt.off) * 3600 + dt.mi * 60 + dt.s

\* UTC offset of America/Sao_Paulo, in hours (no daylight saving time since 2019)
TZ_OFFSET == -3

\* aware datetime at instant secs, shown in the zone with UTC offset off
InZone(u, off) == DateTime(u.y, u.m, u.d, u.h, u.mi, u.s, TRUE, off)

AtOffset(secs, off) == InZone(utcfromtimestamp(secs + off * 3600), off)

\* dt.astimezone(TZ) of an aware datetime
astimezone(dt) == AtOffset(EpochOf(dt), TZ_OFFSET)

\* a UTC offset (in hours) the datetime library works with: strictly between -24 and 24
utcoffset_valid(off) == off > -24 /\ off < 24

\* dt.astimezone(TZ) raises ValueError: dt carries an offset of 24 hours or more
astimezone_raises(dt) == dt.aware /\ ~utcoffset_valid(dt.off)

\* TZ.localize(dt) of a naive datetime: same clock, zone attached
localize(dt) == InZone(dt, TZ_OFFSET)

\* dt.strftime("%Y-%m-%d %H:%M:%S")
strftime(dt) == <<dt.y, dt.m, dt.d, dt.h, dt.mi, dt.s>>

\* datetime.strptime(text, "%Y-%m-%d %H:%M:%S"): zero (ValueError) or one naive
\* datetime; %Y reads four digits, and strftime writes a year below 1000 with fewer
strptime(text) ==
    IF /\ Len(text) = 6
       /\ text[1] >= 1000
       /\ ValidDate(text[1], text[2], text[3])
       /\ text[4] \in 0..23 /\ text[5] \in 0..59 /\ text[6] \in 0..59
    THEN <<DateTime(text[1], text[2], text[3], text[4], text[5], text[6], FALSE, 0)>>
    ELSE <<>>

\* date_from <= d <= date_to
InWindow(d, dfrom, dto) == DateLE(dfrom, d) /\ DateLE(d, dto)

-----------------------------------------------------------------------------
(* bot_agenda_futebol.py: the RapidAPI client *)

\* Config.retry_max
retry_max == 3

\* number of endpoint shapes search_team_id tries
SEARCH_ATTEMPTS == 6

\* number of endpoint shapes in the attempts of fetch_fixtures; only the last has
\* needs_filter
FIXTURE_ATTEMPTS == 4

\* the place of "fixtures_with_team_param" in that list: its params lambda takes no
\* argument and names `tid`, which is bound nowhere, so that building the parameters of
\* the third request raises NameError, outside the try of the loop
fixtures_with_team_param == 3

\* cfg.country
country == S_Brazil

DEFAULT_TEAM_IDS(key) ==
    IF key = S_cruzeiro THEN 4249
    ELSE IF key = S_atleticomg THEN 4251
    ELSE IF key = S_americamg THEN 4245
    ELSE 0

normalize_team_key(name) == Lower(Strip(name))

\* build_team_id_map().get(key), no override in the environment
team_id_map(key) == DEFAULT_TEAM_IDS(key)

\* a response of session.get: kind "timeout", "neterr" or "http"
Resp(kind, code, json, data) == [kind |-> kind, code |-> code, json |-> json, data |-> data]

\* classes of outcome that are subclasses of Exception other than FileNotFoundError
ExceptionOutcomes == {"Timeout", "RequestException", "RuntimeError429",
                      "RuntimeErrorStatus", "RuntimeErrorJson"}

\* _get without the 403 branch: a 403 is one more status >= 400
_get_no403(resp, att) ==
    IF resp.kind = "timeout" THEN (IF att >= retry_max THEN "Timeout" ELSE "retry")
    ELSE IF resp.kind = "neterr"
    THEN (IF att >= retry_max THEN "RequestException" ELSE "retry")
    ELSE IF resp.code = 404 THEN "FileNotFoundError"
    ELSE IF resp.code = 429 THEN (IF att >= retry_max THEN "RuntimeError429" ELSE "retry")
    ELSE IF resp.code >= 400 THEN "RuntimeErrorStatus"
    ELSE IF ~resp.json THEN "RuntimeErrorJson"
    ELSE "return"

\* _get treating 404 as it treats 403
_get_fatal404(resp, att) ==
    IF resp.kind = "timeout" THEN (IF att >= retry_max THEN "Timeout" ELSE "retry")
    ELSE IF resp.kind = "neterr"
    THEN (IF att >= retry_max THEN "RequestException" ELSE "retry")
    ELSE IF resp.code \in {403, 404} THEN "SystemExit"
    ELSE IF resp.code = 429 THEN (IF att >= retry_max THEN "RuntimeError429" ELSE "retry")
    ELSE IF resp.code >= 400 THEN "RuntimeErrorStatus"
    ELSE IF ~resp.json THEN "RuntimeErrorJson"
    ELSE "return"

\* _get retrying after every failed status other than 403
_get_retries_status(resp, att) ==
    IF resp.kind = "timeout" THEN (IF att >= retry_max THEN "Timeout" ELSE "retry")
    ELSE IF resp.kind = "neterr"
    THEN (IF att >= retry_max THEN "RequestException" ELSE "retry")
    ELSE IF resp.code = 403 THEN "SystemExit"
    ELSE IF resp.code >= 400 THEN (IF att >= retry_max THEN "RuntimeError429" ELSE "retry")
    ELSE IF ~resp.json THEN "RuntimeErrorJson"
    ELSE "return"

\* one iteration of the retry loop of _get, at attempt number att
_get(resp, att) ==
    IF resp.kind = "timeout" THEN (IF att >= retry_max THEN "Timeout" ELSE "retry")
    ELSE IF resp.kind = "neterr"
    THEN (IF att >= retry_max THEN "RequestException" ELSE "retry")
    ELSE IF resp.code = 403 THEN "SystemExit"
    ELSE IF resp.code = 404 THEN "FileNotFoundError"
    ELSE IF resp.code = 429 THEN (IF att >= retry_max THEN "RuntimeError429" ELSE "retry")
    ELSE IF resp.code >= 400 THEN "RuntimeErrorStatus"
    ELSE IF ~resp.json THEN "RuntimeErrorJson"
    ELSE "return"

\* search_team_id with only `except FileNotFoundError`
search_team_id_catches_notfound_only(o) == o = "FileNotFoundError"

\* the except clauses around self._get in search_team_id
search_team_id_catches(o) == o = "FileNotFoundError" \/ o \in ExceptionOutcomes

\* the except clauses around self._get in fetch_fixtures
fetch_fixtures_catches(o) == o = "FileNotFoundError" \/ o \in ExceptionOutcomes

\* the except clauses around api.fetch_fixtures in main: SystemExit is re-raised
main_catches(o) == o \in {"FileNotFoundError", "NameError"} \/ o \in ExceptionOutcomes

\* a team entry of a search payload
TeamEntry(id, name, ctry) == [id |-> id, name |-> name, country |-> ctry]

\* the test search_team_id applies to one entry of the payload
entry_matches(entry, team_name, ctry) ==
    LET normalized_name == Lower(Strip(team_name))
        normalized_country == Lower(Strip(ctry))
        name == Lower(Strip(entry.name))
        country_value == Lower(entry.country)
    IN /\ entry.id # 0
       /\ name # <<>>
       /\ ~(/\ normalized_country # <<>>
            /\ country_value # <<>>
            /\ ~IsSubstring(normalized_country, country_value))
       /\ \/ normalized_name = name
          \/ IsSubstring(normalized_name, name)
          \/ IsSubstring(name, normalized_name)

\* the id search_team_id returns for one payload: that of the first matching entry, else 0
search_entries(entries, team_name, ctry) ==
    LET hits == {i \in 1..Len(entries) : entry_matches(entries[i], team_name, ctry)}
    IN IF hits = {} THEN 0
       ELSE entries[CHOOSE i \in hits : \A j \in hits : i <= j].id

-----------------------------------------------------------------------------
(* bot_agenda_futebol.py: normalisation of one fixture *)

\* timestamp values of a payload: kind "iso" (ISO text), "epoch" (a number of 32
\* bits), "digits" (a text of digits), "bad" (unparsable text) or "none" (absent)
IsoTs(dt) == [kind |-> "iso", secs |-> 0, dt |-> dt]
EpochTs(secs) == [kind |-> "epoch", secs |-> secs, dt |-> DateTime(0, 0, 0, 0, 0, 0, FALSE, 0)]
DigitsTs(secs) == [kind |-> "digits", secs |-> secs, dt |-> DateTime(0, 0, 0, 0, 0, 0, FALSE, 0)]
BadTs == [kind |-> "bad", secs |-> 0, dt |-> DateTime(0, 0, 0, 0, 0, 0, FALSE, 0)]
NoTs == [kind |-> "none", secs |-> 0, dt |-> DateTime(0, 0, 0, 0, 0, 0, FALSE, 0)]

\* the truth value of a timestamp value: None and the number 0 are false, so that
\* `fixture.get("date") or fixture.get("timestamp") or fixture_payload.get("date")` is None
timestamp_true(value) == ~(value.kind = "none" \/ (value.kind = "epoch" /\ value.secs = 0))

\* zero or one datetime; the seconds of the model are numbers of 32 bits (the years
\* 1901 to 2038), all of which utcfromtimestamp takes; datetime.fromisoformat raises ValueError, which is caught, on
\* an offset of 24 hours or more
_parse_timestamp(value) ==
    IF value.kind \in {"epoch", "digits"}
    THEN <<utcfromtimestamp(value.secs)>>
    ELSE IF value.kind = "iso"
    THEN (IF value.dt.aware /\ ~utcoffset_valid(value.dt.off) THEN <<>> ELSE <<value.dt>>)
    ELSE <<>>

\* dt.replace(tzinfo=None)
replace_tzinfo_none(dt) == DateTime(dt.y, dt.m, dt.d, dt.h, dt.mi, dt.s, FALSE, 0)

\* zero or one text in the normalised format
normalize_datetime(value) ==
    LET dt == _parse_timestamp(value)
    IN IF dt = <<>> THEN <<>>
       ELSE <<strftime(IF dt[1].aware THEN replace_tzinfo_none(dt[1]) ELSE dt[1])>>

parse_normalized_datetime(value) == strptime(value)

\* a team block of a fixture payload
TeamInfo(name, id) == [name |-> name, id |-> id]

\* a fixture payload: id, date and status are those of its "fixture" block, which has no
\* "timestamp", and the payload has no "date" of its own
Fixture(id, ts, home, away, status) ==
    [id |-> id, date |-> ts, home |-> home, away |-> away, status |-> status]

_extract_team_name(team_info) == IF team_info.name # <<>> THEN team_info.name ELSE <<>>

\* zero or one normalised record
normalize_fixture(fx) ==
    LET dt_parsed == IF timestamp_true(fx.date) THEN _parse_timestamp(fx.date) ELSE <<>>
        normalized_dt == IF dt_parsed = <<>> THEN <<>>
                         ELSE normalize_datetime(IsoTs(dt_parsed[1]))
        home_name == _extract_team_name(fx.home)
        away_name == _extract_team_name(fx.away)
    IN IF fx.id = 0 THEN <<>>
       ELSE IF dt_parsed = <<>> THEN <<>>
       ELSE IF normalized_dt = <<>> THEN <<>>
       ELSE IF home_name = <<>> \/ away_name = <<>> THEN <<>>
       ELSE <<[external_id |-> str(fx.id),
               match_datetime |-> normalized_dt[1],
               home_team |-> home_name,
               away_team |-> away_name,
               status |-> fx.status]>>

event_matches_team(event, team_name) ==
    LET target == Lower(Strip(team_name))
        hit(name) == /\ name # <<>>
                     /\ (name = target \/ IsSubstring(target, name) \/ IsSubstring(name, target))
    IN \/ target = <<>>
       \/ hit(Lower(Strip(event.home_team)))
       \/ hit(Lower(Strip(event.away_team)))

_fixture_matches_team_id(fx, tid) == fx.home.id = tid \/ fx.away.id = tid

\* [fx for fx in fixtures if self._fixture_matches_team_id(fx, team_id)]
RECURSIVE filter_by_team_id(_, _)
filter_by_team_id(fixtures, tid) ==
    IF fixtures = <<>> THEN <<>>
    ELSE (IF _fixture_matches_team_id(Head(fixtures), tid) THEN <<Head(fixtures)>> ELSE <<>>)
         \o filter_by_team_id(Tail(fixtures), tid)

\* the loop of main over the fixtures of one team: the records it appends to team_matches
RECURSIVE team_matches(_, _, _, _)
team_matches(fixtures, team_name, dfrom, dto) ==
    IF fixtures = <<>> THEN <<>>
    ELSE LET normalized == normalize_fixture(Head(fixtures))
             event_dt == IF normalized = <<>> THEN <<>>
                         ELSE parse_normalized_datetime(normalized[1].match_datetime)
             keep == /\ normalized # <<>>
                     /\ event_dt # <<>>
                     /\ InWindow(DateOf(event_dt[1]), dfrom, dto)
                     /\ event_matches_team(normalized[1], team_name)
         IN (IF keep THEN <<normalized[1]>> ELSE <<>>)
            \o team_matches(Tail(fixtures), team_name, dfrom, dto)

\* first write wins: a key already present is left alone
dict_setdefault(d, match) ==
    IF \E i \in 1..Len(d) : d[i].external_id = match.external_id
    THEN d
    ELSE Append(d, match)

\* dedup[match["external_id"]] = match on an insertion-ordered dict
dict_set(d, match) ==
    IF \E i \in 1..Len(d) : d[i].external_id = match.external_id
    THEN [i \in 1..Len(d) |-> IF d[i].external_id = match.external_id THEN match ELSE d[i]]
    ELSE Append(d, match)

RECURSIVE dedup_fold(_, _)
dedup_fold(d, ms) == IF ms = <<>> THEN d ELSE dedup_fold(dict_set(d, Head(ms)), Tail(ms))

\* the values in reverse insertion order
dedup_reversed(ms) ==
    LET d == dedup_fold(<<>>, ms) IN [i \in 1..Len(d) |-> d[Len(d) + 1 - i]]

\* list(dedup.values()) after the dedup loop of main
dedup(ms) == dedup_fold(<<>>, ms)

-----------------------------------------------------------------------------
(* Inputs of the RapidAPI run *)

TeamNames == {S_Cruzeiro, S_AtleticoMG, S_Betim}

\* the team lists a run is configured with
TeamLists == UNION {[1..n -> TeamNames] : n \in 0..MaxTeams}

MainWindow == [from |-> Date(2026, 1, 1), to |-> Date(2026, 6, 30)]

E_cruzeiro == TeamEntry(4249, S_Cruzeiro, S_Brazil)
E_atletico == TeamEntry(4251, S_AtleticoMG, <<>>)
E_noid == TeamEntry(0, S_Cruzeiro, S_Brazil)
E_chile == TeamEntry(99, S_Cruzeiro, S_Chile)

SearchPayloads == {<<>>, <<E_cruzeiro>>, <<E_atletico>>, <<E_noid>>, <<E_chile, E_cruzeiro>>}

T_cruzeiro == TeamInfo(S_Cruzeiro, 4249)
T_atletico == TeamInfo(S_AtleticoMG, 4251)
T_betim == TeamInfo(S_Betim, 77)
T_blank == TeamInfo(S_Blank, 5)
T_noname == TeamInfo(<<>>, 6)

\* 2026-03-15T16:00:00-03:00
F_a1 == Fixture(101, IsoTs(DateTime(2026, 3, 15, 16, 0, 0, TRUE, -3)), T_cruzeiro, T_atletico, "NS")
\* the same event, reported again with another status
F_a2 == Fixture(101, IsoTs(DateTime(2026, 3, 15, 16, 0, 0, TRUE, -3)), T_cruzeiro, T_atletico, "FT")
\* timestamp 1773601200 = 2026-03-15 19:00:00 UTC
F_b == Fixture(102, EpochTs(1773601200), T_cruzeiro, T_betim, "NS")
\* 2026-07-02T00:00:00, after the window
F_out == Fixture(103, IsoTs(DateTime(2026, 7, 2, 0, 0, 0, FALSE, 0)), T_atletico, T_cruzeiro, "NS")
\* whitespace-only home name
F_ws == Fixture(104, IsoTs(DateTime(2026, 3, 20, 21, 30, 0, FALSE, 0)), T_blank, T_cruzeiro, "NS")
F_noid == Fixture(0, IsoTs(DateTime(2026, 3, 20, 21, 30, 0, FALSE, 0)), T_cruzeiro, T_betim, "NS")
F_nots == Fixture(105, NoTs, T_cruzeiro, T_betim, "NS")
F_badts == Fixture(106, BadTs, T_cruzeiro, T_betim, "NS")
F_noname == Fixture(107, IsoTs(DateTime(2026, 3, 20, 21, 30, 0, FALSE, 0)), T_noname, T_cruzeiro, "NS")
F_other == Fixture(108, IsoTs(DateTime(2026, 3, 21, 18, 0, 0, FALSE, 0)), T_betim, T_betim, "NS")

FixturePayloads ==
    {<<>>, <<F_a1, F_b>>, <<F_a2>>, <<F_b, F_a2>>, <<F_out, F_ws>>,
     <<F_noid, F_nots, F_badts>>, <<F_noname, F_other>>}

\* what an outbound GET can come back with
ErrorResponses ==
    {Resp("timeout", 0, FALSE, <<>>), Resp("neterr", 0, FALSE, <<>>)}
    \cup {Resp("http", c, FALSE, <<>>) : c \in {403, 404, 429, 500}}
    \cup {Resp("http", 200, FALSE, <<>>)}

SearchResponses == ErrorResponses \cup {Resp("http", 200, TRUE, d) : d \in SearchPayloads}

FetchResponses == ErrorResponses \cup {Resp("http", 200, TRUE, d) : d \in FixturePayloads}

NoResp == [kind |-> "none", code |-> 0, phase |-> "none", team |-> 0, ep |-> 0, attempt |-> 0]

Seen(resp, phase) ==
    [kind |-> resp.kind, code |-> resp.code, phase |-> phase, team |-> ti, ep |-> ep,
     attempt |-> attempt]

-----------------------------------------------------------------------------
(* bot_agenda_futebol.py: main *)

\* the code after the loop indented into the loop body: the run ends after one team
loop_left_after_first(i) == i >= 1

\* the for loop over cfg.teams has no team left after index i
loop_exhausted(i) == i >= Len(teams)

\* control state at the start of the loop iteration after the current one (or past the loop)
next_team ==
    [pc |-> IF loop_exhausted(ti) THEN "finish" ELSE "search",
     ti |-> ti + 1, ep |-> 1, attempt |-> 1, backoff |-> 2, team_id |-> 0,
     processed |-> IF loop_exhausted(ti) THEN processed ELSE Append(processed, ti + 1)]

here == [pc |-> pc, ti |-> ti, ep |-> ep, attempt |-> attempt, backoff |-> backoff,
         team_id |-> team_id, processed |-> processed]

\* the retry loop of _get without `backoff *= 2`
retry_again_same_backoff == [here EXCEPT !.attempt = attempt + 1]

\* control state after the retry loop of _get sleeps and tries again
retry_again == [here EXCEPT !.attempt = attempt + 1, !.backoff = backoff * 2]

\* control state when an exception leaves main
leave(how) == [here EXCEPT !.pc = how]

\* control state at the next endpoint shape of the same call
next_endpoint == [here EXCEPT !.ep = ep + 1, !.attempt = 1, !.backoff = 2]

\* control state at the first request of fetch_fixtures with the resolved id
start_fetch(id) ==
    [here EXCEPT !.pc = "fetch", !.ep = 1, !.attempt = 1, !.backoff = 2, !.team_id = id]

Goto(c) ==
    /\ pc' = c.pc
    /\ ti' = c.ti
    /\ ep' = c.ep
    /\ attempt' = c.attempt
    /\ backoff' = c.backoff
    /\ team_id' = c.team_id
    /\ processed' = c.processed

InitMain ==
    /\ prog = "main"
    /\ teams \in TeamLists
    /\ date_from = MainWindow.from
    /\ date_to = MainWindow.to
    /\ pc = IF teams = <<>> THEN "finish" ELSE "search"
    /\ ti = 1
    /\ ep = 1
    /\ attempt = 1
    /\ backoff = 2
    /\ team_id = 0
    /\ all_matches = <<>>
    /\ seen_events = {}
    /\ endpoint_success_count = 0
    /\ matches = <<>>
    /\ posted = <<>>
    /\ result = "running"
    /\ last_resp = NoResp
    /\ paused = 0
    /\ processed = IF teams = <<>> THEN <<>> ELSE <<1>>
    /\ failed = {}
    /\ call = NoCall

\* one GET of search_team_id for the current team, and what main does with its outcome
\* up to the next GET
search_team_id_GET ==
    /\ prog = "main"
    /\ pc = "search"
    /\ \E resp \in SearchResponses :
        LET o == _get(resp, attempt)
            found == IF o = "return" THEN search_entries(resp.data, teams[ti], country) ELSE 0
            fallback == team_id_map(normalize_team_key(teams[ti]))
            unresolved == found = 0 /\ ep >= SEARCH_ATTEMPTS /\ fallback = 0
            c == IF o = "retry" THEN retry_again
                 ELSE IF o = "SystemExit" THEN leave("exited")
                 ELSE IF o # "return" /\ ~search_team_id_catches(o) THEN leave("raised")
                 ELSE IF found # 0 THEN start_fetch(found)
                 ELSE IF ep < SEARCH_ATTEMPTS THEN next_endpoint
                 ELSE IF fallback # 0 THEN start_fetch(fallback)
                 ELSE next_team
        IN /\ Goto(c)
           /\ last_resp' = Seen(resp, "search")
           /\ paused' = IF o = "retry" THEN backoff * 1000 ELSE 0
           /\ result' = IF c.pc = "exited" THEN "exit1"
                        ELSE IF c.pc = "raised" THEN "raised" ELSE result
           /\ failed' = IF c.pc \in {"search", "finish"} /\ c.ti = ti + 1
                        THEN failed \cup {ti} ELSE failed
    /\ UNCHANGED <<call, prog, teams, date_from, date_to, all_matches, seen_events,
                   endpoint_success_count, matches, posted>>

\* main with `endpoint_success_count += 1` reached from the except clause as well (the
\* clause without its `continue`)
success_count_without_continue(count, returned) == count + 1

\* endpoint_success_count after the try around api.fetch_fixtures in main: the except
\* clause continues with the next team, a call that returned is counted
success_count_after(count, returned) == IF returned THEN count + 1 ELSE count

\* one GET of fetch_fixtures for the current team, and what main does with its outcome
\* up to the next GET
fetch_fixtures_GET ==
    /\ prog = "main"
    /\ pc = "fetch"
    /\ \E resp \in FetchResponses :
        LET o == _get(resp, attempt)
            listed == IF o = "return" THEN resp.data ELSE <<>>
            fixtures == IF ep = FIXTURE_ATTEMPTS
                        THEN filter_by_team_id(listed, team_id)
                        ELSE listed
            propagates == o \notin {"retry", "SystemExit", "return"} /\ ~fetch_fixtures_catches(o)
            returns == ~propagates /\ o \notin {"retry", "SystemExit"}
                       /\ (fixtures # <<>> \/ ep >= FIXTURE_ATTEMPTS)
            name_error == ~propagates /\ ~returns /\ o \notin {"retry", "SystemExit"}
                          /\ ep + 1 = fixtures_with_team_param
            found == team_matches(fixtures, teams[ti], date_from, date_to)
            c == IF o = "retry" THEN retry_again
                 ELSE IF o = "SystemExit" THEN leave("exited")
                 ELSE IF propagates THEN (IF main_catches(o) THEN next_team ELSE leave("raised"))
                 ELSE IF returns THEN next_team
                 ELSE IF name_error
                 THEN (IF main_catches("NameError") THEN next_team ELSE leave("raised"))
                 ELSE next_endpoint
        IN /\ Goto(c)
           /\ last_resp' = Seen(resp, "fetch")
           /\ endpoint_success_count' = success_count_after(endpoint_success_count, returns)
           /\ all_matches' = IF returns THEN all_matches \o found ELSE all_matches
           /\ paused' = IF o = "retry" THEN backoff * 1000
                        ELSE IF returns /\ found # <<>> THEN 500 ELSE 0
           /\ result' = IF c.pc = "exited" THEN "exit1"
                        ELSE IF c.pc = "raised" THEN "raised" ELSE result
           /\ failed' = IF \/ returns /\ found = <<>>
                           \/ propagates /\ main_catches(o)
                           \/ name_error /\ main_catches("NameError")
                        THEN failed \cup {ti} ELSE failed
    /\ UNCHANGED <<call, prog, teams, date_from, date_to, seen_events, matches, posted>>

\* main after the loop: deduplicate, decide, post once
main_finish ==
    /\ prog = "main"
    /\ pc = "finish"
    /\ LET deduped == dedup(all_matches)
       IN /\ matches' = deduped
          /\ IF endpoint_success_count = 0
             THEN /\ result' = "return1"
                  /\ posted' = posted
             ELSE IF deduped = <<>>
             THEN /\ result' = "return0"
                  /\ posted' = posted
             ELSE /\ posted' = Append(posted, deduped)
                  /\ \E status_ok \in BOOLEAN :
                        result' = IF status_ok THEN "return0" ELSE "raised"
    /\ pc' = "done"
    /\ UNCHANGED <<call, prog, teams, date_from, date_to, ti, ep, attempt, backoff, team_id,
                   all_matches, seen_events, endpoint_success_count, last_resp,
                   paused, processed, failed>>

NextMain == search_team_id_GET \/ fetch_fixtures_GET \/ main_finish

-----------------------------------------------------------------------------
(* providers/sofascore_provider.py *)

MAX_RETRIES == 3

RETRY_BACKOFF == <<1, 2, 4>>

S_sofascore == <<"s", "o", "f", "a", "s", "c", "o", "r", "e">>

\* what _fetch_team_events does with the outcome of one GET at attempt att: "return" the
\* events of the payload, "skip" the team (return []), or sleep and "retry"
_fetch_team_events(resp, att) ==
    IF resp.kind = "ok" THEN "return"
    ELSE IF resp.code \in {403, 404} THEN "skip"
    ELSE IF att = MAX_RETRIES THEN "skip"
    ELSE "retry"

\* data.get("events") or data.get("matches") or []
events_of(data) == IF data.events # <<>> THEN data.events ELSE data.matches

\* sofascore_provider._extract_team_name: team_info is zero or one dict
sofa_extract_team_name(team_info) ==
    IF team_info = <<>> THEN <<>>
    ELSE IF team_info[1].name # <<>> THEN team_info[1].name
    ELSE team_info[1].shortName

\* sofascore_provider._normalize_event: zero or one record
sofa_normalize_event(event) ==
    LET home == sofa_extract_team_name(event.homeTeam)
        away == sofa_extract_team_name(event.awayTeam)
    IN IF event.id = <<>> \/ event.startTimestamp = <<>> THEN <<>>
       ELSE IF home = <<>> \/ away = <<>> THEN <<>>
       ELSE <<[external_id |-> S_sofascore \o <<"|">> \o str(event.id[1]),
               match_datetime |->
                   strftime(astimezone(AtOffset(event.startTimestamp[1], 0))),
               home_team |-> home,
               away_team |-> away,
               status |-> IF event.status = <<>> THEN S_scheduled ELSE event.status]>>

\* target_keys of fetch_matches (SofaScore and FlashScore)
target_keys == {_normalized_key(teams[i]) : i \in 1..Len(teams)}

\* body of `for event in events` in sofascore_provider.fetch_matches, over all events:
\* the collected list and the seen_events set after the loop, or raised: the strptime
\* of the window test, which stands in no try, raised ValueError
RECURSIVE sofa_collect(_, _, _)
sofa_collect(events, collected, seen) ==
    IF events = <<>> THEN [collected |-> collected, seen |-> seen, raised |-> FALSE]
    ELSE LET normalized == sofa_normalize_event(Head(events))
             tested ==
                 /\ normalized # <<>>
                 /\ normalized[1].external_id \notin seen
             keep ==
                 /\ tested
                 /\ InWindow(DateOf(strptime(normalized[1].match_datetime)[1]),
                             date_from, date_to)
                 /\ \/ _normalized_key(normalized[1].home_team) \in target_keys
                    \/ _normalized_key(normalized[1].away_team) \in target_keys
         IN IF tested /\ strptime(normalized[1].match_datetime) = <<>>
            THEN [collected |-> collected, seen |-> seen, raised |-> TRUE]
            ELSE IF keep
            THEN sofa_collect(Tail(events), Append(collected, normalized[1]),
                              seen \cup {normalized[1].external_id})
            ELSE sofa_collect(Tail(events), collected, seen)

-----------------------------------------------------------------------------
(* Inputs of the SofaScore run *)

SofaTeamNames == {S_Cruzeiro, S_AtleticoMG_acc, S_Betim}

SofaTeamLists == UNION {[1..n -> SofaTeamNames] : n \in 0..MaxTeams}

ProviderWindow == [from |-> Date(2026, 1, 1), to |-> Date(2026, 6, 30)]

SofaTeam(name, shortName) == <<[name |-> name, shortName |-> shortName]>>

SofaEvent(id, ts, home, away) ==
    [id |-> id, startTimestamp |-> ts, homeTeam |-> home, awayTeam |-> away, status |-> <<>>]

\* 2026-03-15 19:00 UTC
SE_a == SofaEvent(<<7>>, <<1773601200>>, SofaTeam(S_Cruzeiro, <<>>), SofaTeam(S_AtleticoMG, <<>>))
\* 2026-03-16 01:30 UTC, still 2026-03-15 in Sao Paulo; team named by shortName only
SE_late == SofaEvent(<<8>>, <<1773624600>>, SofaTeam(<<>>, S_Cruzeiro), SofaTeam(S_Betim, <<>>))
\* 2026-07-01 02:00 UTC, 2026-06-30 23:00 in Sao Paulo: the last day of the window
SE_edge == SofaEvent(<<9>>, <<1782871200>>, SofaTeam(S_AtleticoMG, <<>>), SofaTeam(S_Betim, <<>>))
\* 2026-07-02 00:00 UTC: after the window
SE_out == SofaEvent(<<10>>, <<1782950400>>, SofaTeam(S_Cruzeiro, <<>>), SofaTeam(S_Betim, <<>>))
\* home name of two spaces
SE_ws == SofaEvent(<<11>>, <<1773601200>>, SofaTeam(S_Blank, <<>>), SofaTeam(S_Cruzeiro, <<>>))
SE_other == SofaEvent(<<12>>, <<1773601200>>, SofaTeam(S_Brazil, <<>>), SofaTeam(S_Chile, <<>>))
SE_noid == SofaEvent(<<>>, <<1773601200>>, SofaTeam(S_Cruzeiro, <<>>), SofaTeam(S_Betim, <<>>))
SE_nohome == SofaEvent(<<13>>, <<1773601200>>, <<>>, SofaTeam(S_Cruzeiro, <<>>))
SofaPayloads ==
    { [events |-> <<>>, matches |-> <<>>],
      [events |-> <<SE_a, SE_late>>, matches |-> <<>>],
      [events |-> <<>>, matches |-> <<SE_a, SE_edge>>],
      [events |-> <<SE_out, SE_ws, SE_a>>, matches |-> <<SE_other>>],
      [events |-> <<SE_other, SE_noid, SE_nohome>>, matches |-> <<>>] }

SofaResponses ==
    {[kind |-> "ok", code |-> 200, data |-> p] : p \in SofaPayloads}
    \cup {[kind |-> "http_error", code |-> c, data |-> <<>>] : c \in {403, 404, 500}}
    \cup {[kind |-> "timeout", code |-> 0, data |-> <<>>]}

-----------------------------------------------------------------------------
(* providers/sofascore_provider.py: fetch_matches *)

InitProvider ==
    /\ date_from = ProviderWindow.from
    /\ date_to = ProviderWindow.to
    /\ ti = 1
    /\ ep = 1
    /\ attempt = 1
    /\ backoff = 0
    /\ team_id = 0
    /\ all_matches = <<>>
    /\ seen_events = {}
    /\ endpoint_success_count = 0
    /\ matches = <<>>
    /\ posted = <<>>
    /\ result = "running"
    /\ last_resp = NoResp
    /\ paused = 0
    /\ processed = <<>>
    /\ failed = {}
    /\ call = NoCall

InitSofaScore ==
    /\ prog = "sofascore"
    /\ teams \in SofaTeamLists
    /\ pc = "fetch"
    /\ InitProvider

\* a team without an entry in SOFASCORE_TEAM_IDS: the loop goes on without a request
sofascore_skip_unmapped ==
    /\ prog = "sofascore"
    /\ pc = "fetch"
    /\ ti <= Len(teams)
    /\ SOFASCORE_TEAM_IDS(_normalize_name(teams[ti])) = 0
    /\ ti' = ti + 1
    /\ UNCHANGED <<call, prog, pc, teams, date_from, date_to, ep, attempt, backoff, team_id,
                   all_matches, seen_events, endpoint_success_count, matches, posted,
                   result, last_resp, paused, processed, failed>>

\* one GET of _fetch_team_events for the current team, and what fetch_matches does with
\* its outcome up to the next GET
sofascore_fetch_team_events_GET ==
    /\ prog = "sofascore"
    /\ pc = "fetch"
    /\ ti <= Len(teams)
    /\ SOFASCORE_TEAM_IDS(_normalize_name(teams[ti])) # 0
    /\ \E resp \in SofaResponses :
          LET how == _fetch_team_events(resp, attempt)
              events == IF how = "return" THEN events_of(resp.data) ELSE <<>>
              after == sofa_collect(events, all_matches, seen_events)
          IN /\ last_resp' = Seen(resp, "events")
             /\ team_id' = SOFASCORE_TEAM_IDS(_normalize_name(teams[ti]))
             /\ IF how = "retry"
                THEN /\ attempt' = attempt + 1
                     /\ backoff' = RETRY_BACKOFF[IF attempt - 1 < Len(RETRY_BACKOFF) - 1
                                                 THEN attempt ELSE Len(RETRY_BACKOFF)]
                     /\ paused' = backoff' * 1000
                     /\ UNCHANGED <<ti, all_matches, seen_events, failed>>
                     /\ UNCHANGED <<pc, result>>
                ELSE IF after.raised
                THEN /\ pc' = "raised"
                     /\ result' = "raised"
                     /\ UNCHANGED <<attempt, backoff, paused, ti, all_matches, seen_events,
                                    failed>>
                ELSE /\ attempt' = 1
                     /\ backoff' = 0
                     /\ paused' = 0
                     /\ ti' = ti + 1
                     /\ all_matches' = after.collected
                     /\ seen_events' = after.seen
                     /\ failed' = IF how = "skip" THEN failed \cup {ti} ELSE failed
                     /\ UNCHANGED <<pc, result>>
    /\ UNCHANGED <<call, prog, teams, date_from, date_to, ep, endpoint_success_count,
                   matches, posted, processed>>

\* return collected
sofascore_return ==
    /\ prog = "sofascore"
    /\ pc = "fetch"
    /\ ti > Len(teams)
    /\ pc' = "done"
    /\ matches' = all_matches
    /\ result' = "return"
    /\ UNCHANGED <<call, prog, teams, date_from, date_to, ti, ep, attempt, backoff, team_id,
                   all_matches, seen_events, endpoint_success_count, posted, last_resp,
                   paused, processed, failed>>

NextSofaScore == sofascore_skip_unmapped \/ sofascore_fetch_team_events_GET \/ sofascore_return

-----------------------------------------------------------------------------
(* providers/flashscore_provider.py *)

S_flashscore == <<"f", "l", "a", "s", "h", "s", "c", "o", "r", "e">>

\* what _load_flashscore_html returns for the outcome of its one GET: the page, or
\* nothing (None) for every status other than 200 and for a failed request
_load_flashscore_html(resp) ==
    IF resp.kind = "ok" /\ resp.code = 200 THEN <<resp.page>> ELSE <<>>

\* _build_datetime: the body ends after `if not parsed: return None`, so a call that gets
\* past that test falls off the end of the function; every call returns None
_build_datetime(date_token, time_token, dfrom, dto) == <<>>

flash_card_record(card, dt) ==
    [external_id |->
         S_flashscore \o <<"|">> \o Lower(IF card.event_id # <<>> THEN card.event_id
                                         ELSE datetime_text(strftime(dt)) \o <<"|">>
                                              \o card.home \o <<"|">> \o card.away),
     match_datetime |-> strftime(dt),
     home_team |-> _canonicalize_team(card.home),
     away_team |-> _canonicalize_team(card.away),
     status |-> S_scheduled]

\* _parse_match_card: zero or one record
_parse_match_card(card, dfrom, dto) ==
    IF _build_datetime(card.date_token, card.time_token, dfrom, dto) = <<>> THEN <<>>
    ELSE IF card.home = <<>> \/ card.away = <<>> THEN <<>>
    ELSE <<flash_card_record(
               card, _build_datetime(card.date_token, card.time_token, dfrom, dto)[1])>>

RECURSIVE parse_cards(_, _, _)
parse_cards(cards, dfrom, dto) ==
    IF cards = <<>> THEN <<>>
    ELSE _parse_match_card(Head(cards), dfrom, dto) \o parse_cards(Tail(cards), dfrom, dto)

UPCOMING_MARKERS_1 ==
    <<"U", "p", "c", "o", "m", "i", "n", "g", " ", "m", "a", "t", "c", "h",
      "e", "s", ":">>
UPCOMING_MARKERS_2 ==
    <<"P", "r", "o_acute", "x", "i", "m", "a", "s", " ", "p", "a", "r", "t", "i",
      "d", "a", "s", ":">>

\* markers of _extract_upcoming_section, in the order they are tried
UPCOMING_MARKERS == <<UPCOMING_MARKERS_1, UPCOMING_MARKERS_2>>

\* end_markers of _extract_upcoming_section, in the order they are tried
UPCOMING_END_MARKERS ==
    <<<<"S", "h", "o", "w", " ", "m", "o", "r", "e">>,
      <<"M", "o", "s", "t", "r", "a", "r", " ", "m", "a", "i", "s">>,
      <<"S", "e", "e", " ", "m", "o", "r", "e">>,
      <<"V", "e", "r", " ", "m", "a", "i", "s">>>>

\* the loop over end_markers: the end of the section that starts at index start
RECURSIVE section_end(_, _, _)
section_end(text, start, ends) ==
    IF ends = <<>> THEN Len(text) + 1
    ELSE IF Find(text, Head(ends), start) # 0 THEN Find(text, Head(ends), start)
    ELSE section_end(text, start, Tail(ends))

\* the loop over markers of _extract_upcoming_section
RECURSIVE upcoming_section_from(_, _)
upcoming_section_from(text, markers) ==
    IF markers = <<>> THEN <<>>
    ELSE IF Find(text, Head(markers), 1) = 0 THEN upcoming_section_from(text, Tail(markers))
    ELSE Strip(SubSeq(text, Find(text, Head(markers), 1) + Len(Head(markers)),
                      section_end(text, Find(text, Head(markers), 1) + Len(Head(markers)),
                                  UPCOMING_END_MARKERS) - 1))

_extract_upcoming_section(text) == upcoming_section_from(text, UPCOMING_MARKERS)

DigitAt(s, i) == i \in 1..Len(s) /\ s[i] \in SeqRange(DigitChars)

\* DATE_REGEX = (\d{1,2})[./](\d{1,2}) matches at index i with a first group of n digits
date_regex_at(s, i, n) ==
    /\ \A k \in 0..(n - 1) : DigitAt(s, i + k)
    /\ i + n <= Len(s)
    /\ s[i + n] \in {".", "/"}
    /\ DigitAt(s, i + n + 1)

\* the match of DATE_REGEX at index i whose groups have n and m digits
date_regex_groups(s, i, n, m) ==
    [day |-> int(SubSeq(s, i, i + n - 1)),
     month |-> int(SubSeq(s, i + n + 1, i + n + m)),
     end |-> i + n + 1 + m]

\* the match of DATE_REGEX at index i: both groups take two digits when they can
date_regex_match(s, i) ==
    IF date_regex_at(s, i, 2)
    THEN date_regex_groups(s, i, 2, IF DigitAt(s, i + 4) THEN 2 ELSE 1)
    ELSE date_regex_groups(s, i, 1, IF DigitAt(s, i + 3) THEN 2 ELSE 1)

\* DATE_REGEX.search(s): zero or one match, the leftmost
date_regex_search(s) ==
    IF \E i \in 1..Len(s) : date_regex_at(s, i, 2) \/ date_regex_at(s, i, 1)
    THEN <<date_regex_match(
               s, Min({i \in 1..Len(s) : date_regex_at(s, i, 2) \/ date_regex_at(s, i, 1)}))>>
    ELSE <<>>

\* separators of _split_teams, in the order they are tried
TEAM_SEPARATORS == <<<<" ", "v", " ">>, <<" ", "x", " ">>, <<" ", "-", " ">>>>

RECURSIVE split_teams_by(_, _)
split_teams_by(text, separators) ==
    IF separators = <<>> THEN <<>>
    ELSE IF Find(text, Head(separators), 1) # 0
    THEN <<Strip(SubSeq(text, 1, Find(text, Head(separators), 1) - 1)),
           Strip(From(text, Find(text, Head(separators), 1) + Len(Head(separators))))>>
    ELSE split_teams_by(text, Tail(separators))

\* _split_teams: the empty sequence (None) or <<home, away>>
_split_teams(text) == split_teams_by(text, TEAM_SEPARATORS)

\* the candidate years without the year of the end of the window
candidate_years_start_only(dfrom, dto) == <<dfrom.y>>

\* sorted({date_from.year, date_to.year})
candidate_years(dfrom, dto) ==
    IF dfrom.y = dto.y THEN <<dfrom.y>>
    ELSE IF dfrom.y < dto.y THEN <<dfrom.y, dto.y>>
    ELSE <<dto.y, dfrom.y>>

\* the loop of _infer_year over the candidate years: zero or one year
RECURSIVE year_in_window(_, _, _, _, _)
year_in_window(years, day, month, dfrom, dto) ==
    IF years = <<>> THEN <<>>
    ELSE IF ValidDate(Head(years), month, day)
            /\ InWindow(Date(Head(years), month, day), dfrom, dto)
    THEN <<Head(years)>>
    ELSE year_in_window(Tail(years), day, month, dfrom, dto)

_infer_year(day, month, dfrom, dto) ==
    IF year_in_window(candidate_years(dfrom, dto), day, month, dfrom, dto) # <<>>
    THEN year_in_window(candidate_years(dfrom, dto), day, month, dfrom, dto)[1]
    ELSE IF dfrom.m = 12 /\ month <= dto.m THEN dto.y
    ELSE dfrom.y

\* characters _parse_text_item strips around the text after the date
ITEM_TRIM == {" ", ".", "-", "endash", "bullet"}

\* outcomes of _parse_text_item: nothing (None), one record, or ValueError raised
NoItem == [kind |-> "none"]
Raised(what) == [kind |-> "raised", what |-> what]

\* _parse_text_item from `dt = datetime(day_year, month, day, 12, 0)` on
text_item_in_year(year, month, day, home, away) ==
    IF ~ValidDate(year, month, day) THEN Raised("ValueError")
    ELSE [kind |-> "match",
          match |->
              [external_id |->
                   S_flashscore \o <<"|">> \o str(year) \o <<"-">> \o pad2(month) \o <<"-">>
                   \o pad2(day) \o <<"|">> \o home \o <<"|">> \o away,
               match_datetime |->
                   strftime(localize(DateTime(year, month, day, 12, 0, 0, FALSE, 0))),
               home_team |-> home,
               away_team |-> away,
               status |-> S_scheduled]]

\* _parse_text_item from `teams = _split_teams(rest)` on
text_item_teams(day, month, split, dfrom, dto) ==
    IF split = <<>> THEN NoItem
    ELSE text_item_in_year(_infer_year(day, month, dfrom, dto), month, day,
                           _canonicalize_team(split[1]), _canonicalize_team(split[2]))

\* _parse_text_item from `day = int(date_match.group(1))` on
text_item_dated(item, date_match, dfrom, dto) ==
    IF date_match = <<>> THEN NoItem
    ELSE text_item_teams(date_match[1].day, date_match[1].month,
                         _split_teams(StripChars(From(item, date_match[1].end), ITEM_TRIM)),
                         dfrom, dto)

_parse_text_item(item, dfrom, dto) == text_item_dated(item, date_regex_search(item), dfrom, dto)

\* the loop of _parse_flashscore_text_fallback over the items: the parsed matches, or
\* the exception that left the loop
RECURSIVE parse_items(_, _, _, _)
parse_items(items, parsed_matches, dfrom, dto) ==
    IF items = <<>> THEN [kind |-> "return", matches |-> parsed_matches]
    ELSE IF Strip(Head(items)) = <<>> THEN parse_items(Tail(items), parsed_matches, dfrom, dto)
    ELSE IF _parse_text_item(Strip(Head(items)), dfrom, dto).kind = "raised"
    THEN _parse_text_item(Strip(Head(items)), dfrom, dto)
    ELSE parse_items(
             Tail(items),
             IF _parse_text_item(Strip(Head(items)), dfrom, dto).kind = "match"
             THEN Append(parsed_matches, _parse_text_item(Strip(Head(items)), dfrom, dto).match)
             ELSE parsed_matches,
             dfrom, dto)

_parse_flashscore_text_fallback(text, dfrom, dto) ==
    IF _extract_upcoming_section(text) = <<>> THEN [kind |-> "return", matches |-> <<>>]
    ELSE parse_items(Split(_extract_upcoming_section(text), {","}), <<>>, dfrom, dto)

\* _parse_flashscore_matches: the matches of the cards, or of the text when no card parses
_parse_flashscore_matches(page, dfrom, dto) ==
    IF parse_cards(page.cards, dfrom, dto) # <<>>
    THEN [kind |-> "return", matches |-> parse_cards(page.cards, dfrom, dto)]
    ELSE _parse_flashscore_text_fallback(page.text, dfrom, dto)

\* body of `for match in matches` in flashscore_provider.fetch_matches, over all
\* matches; raised: the strptime of the window test, which stands in no try, raised
\* ValueError
RECURSIVE flash_collect(_, _, _)
flash_collect(found, collected, seen) ==
    IF found = <<>> THEN [collected |-> collected, seen |-> seen, raised |-> FALSE]
    ELSE IF /\ Head(found).external_id \notin seen
            /\ strptime(Head(found).match_datetime) = <<>>
    THEN [collected |-> collected, seen |-> seen, raised |-> TRUE]
    ELSE IF /\ Head(found).external_id \notin seen
            /\ InWindow(DateOf(strptime(Head(found).match_datetime)[1]), date_from, date_to)
            /\ \/ _normalized_key(Head(found).home_team) \in target_keys
               \/ _normalized_key(Head(found).away_team) \in target_keys
    THEN flash_collect(Tail(found), Append(collected, Head(found)),
                       seen \cup {Head(found).external_id})
    ELSE flash_collect(Tail(found), collected, seen)

-----------------------------------------------------------------------------
(* Inputs of the FlashScore run *)

FlashTeamNames == {S_Cruzeiro, S_Galo, S_Betim}

FlashTeamLists == UNION {[1..n -> FlashTeamNames] : n \in 0..MaxTeams}

FlashCard(date_token, time_token, home, away, event_id) ==
    [date_token |-> date_token, time_token |-> time_token, home |-> home, away |-> away,
     event_id |-> event_id]

\* a card with every attribute _parse_match_card reads
CARD_full ==
    FlashCard(<<"2", "0", "2", "6", "-", "0", "3", "-", "1", "5">>, <<"1", "6", ":", "0", "0">>,
              S_Cruzeiro, S_Galo, <<"g", "_", "1", "_", "A", "b", "C", "d">>)

TEXT_none ==
    <<"C", "r", "u", "z", "e", "i", "r", "o", " ", "f", "i", "x", "t", "u",
      "r", "e", "s", " ", "S", "h", "o", "w", " ", "m", "o", "r", "e">>
TEXT_two ==
    <<"U", "p", "c", "o", "m", "i", "n", "g", " ", "m", "a", "t", "c", "h",
      "e", "s", ":", " ", "1", "5", ".", "0", "3", ".", " ", "C", "r", "u",
      "z", "e", "i", "r", "o", " ", "v", " ", "G", "a", "l", "o", ",", " ",
      "2", "2", "/", "3", " ", "B", "e", "t", "i", "m", " ", "x", " ", "C",
      "r", "u", "z", "e", "i", "r", "o", " ", "S", "h", "o", "w", " ", "m",
      "o", "r", "e">>
TEXT_mixed ==
    <<"P", "r", "o_acute", "x", "i", "m", "a", "s", " ", "p", "a", "r", "t", "i",
      "d", "a", "s", ":", " ", "1", "5", ".", "0", "3", ".", " ", "C", "r",
      "u", "z", "e", "i", "r", "o", " ", "v", " ", "G", "a", "l", "o", " ",
      ",", " ", "0", "2", ".", "0", "7", ".", " ", "C", "r", "u", "z", "e",
      "i", "r", "o", " ", "-", " ", "B", "e", "t", "i", "m", ",", " ", ",",
      " ", "2", "0", ".", "0", "4", ".", " ", "B", "r", "a", "z", "i", "l",
      " ", "v", " ", "C", "h", "i", "l", "e", ",", " ", "B", "e", "t", "i",
      "m", " ", "v", " ", "G", "a", "l", "o", " ", "V", "e", "r", " ", "m",
      "a", "i", "s", " ", "0", "1", ".", "0", "5", ".">>
TEXT_invalid ==
    <<"U", "p", "c", "o", "m", "i", "n", "g", " ", "m", "a", "t", "c", "h",
      "e", "s", ":", " ", "2", "2", ".", "0", "3", ".", " ", "B", "e", "t",
      "i", "m", " ", "v", " ", "G", "a", "l", "o", ",", " ", "3", "1", ".",
      "0", "2", ".", " ", "C", "r", "u", "z", "e", "i", "r", "o", " ", "v",
      " ", "B", "e", "t", "i", "m">>

FlashPages ==
    { [cards |-> <<>>, text |-> TEXT_none],
      [cards |-> <<CARD_full>>, text |-> TEXT_two],
      [cards |-> <<>>, text |-> TEXT_mixed],
      [cards |-> <<>>, text |-> TEXT_invalid] }

FlashResponses ==
    {[kind |-> "ok", code |-> 200, page |-> p] : p \in FlashPages}
    \cup {[kind |-> "ok", code |-> c, page |-> [cards |-> <<>>, text |-> TEXT_two]] :
             c \in {403, 404, 500}}
    \cup {[kind |-> "timeout", code |-> 0, page |-> [cards |-> <<>>, text |-> <<>>]]}

-----------------------------------------------------------------------------
(* providers/flashscore_provider.py: fetch_matches *)

InitFlashScore ==
    /\ prog = "flashscore"
    /\ teams \in FlashTeamLists
    /\ pc = "fetch"
    /\ InitProvider

\* a team without a page in TEAM_PAGES: the loop goes on without a request
flashscore_skip_unmapped ==
    /\ prog = "flashscore"
    /\ pc = "fetch"
    /\ ti <= Len(teams)
    /\ ~TEAM_PAGES(_canonicalize_team(teams[ti]))
    /\ ti' = ti + 1
    /\ UNCHANGED <<call, prog, pc, teams, date_from, date_to, ep, attempt, backoff, team_id,
                   all_matches, seen_events, endpoint_success_count, matches, posted,
                   result, last_resp, paused, processed, failed>>

\* what one iteration of the loop over the teams does with the page it loaded
flashscore_team_done(html, parsed) ==
    IF html # <<>> /\ (parsed.kind = "raised"
                      \/ flash_collect(parsed.matches, all_matches, seen_events).raised)
    THEN /\ pc' = "raised"
         /\ result' = "raised"
         /\ UNCHANGED <<ti, all_matches, seen_events, failed>>
    ELSE /\ ti' = ti + 1
         /\ all_matches' =
                IF html = <<>> THEN all_matches
                ELSE flash_collect(parsed.matches, all_matches, seen_events).collected
         /\ seen_events' =
                IF html = <<>> THEN seen_events
                ELSE flash_collect(parsed.matches, all_matches, seen_events).seen
         /\ failed' = IF html = <<>> THEN failed \cup {ti} ELSE failed
         /\ UNCHANGED <<pc, result>>

\* the GET of _load_flashscore_html for the current team, and what fetch_matches does
\* with its outcome up to the next GET
flashscore_load_html_GET ==
    /\ prog = "flashscore"
    /\ pc = "fetch"
    /\ ti <= Len(teams)
    /\ TEAM_PAGES(_canonicalize_team(teams[ti]))
    /\ \E resp \in FlashResponses :
          /\ last_resp' = Seen(resp, "fixtures")
          /\ flashscore_team_done(
                 _load_flashscore_html(resp),
                 _parse_flashscore_matches(resp.page, date_from, date_to))
    /\ UNCHANGED <<call, prog, teams, date_from, date_to, ep, attempt, backoff, team_id,
                   endpoint_success_count, matches, posted, paused, processed>>

\* return collected
flashscore_return ==
    /\ prog = "flashscore"
    /\ pc = "fetch"
    /\ ti > Len(teams)
    /\ pc' = "done"
    /\ matches' = all_matches
    /\ result' = "return"
    /\ UNCHANGED <<call, prog, teams, date_from, date_to, ti, ep, attempt, backoff, team_id,
                   all_matches, seen_events, endpoint_success_count, posted, last_resp,
                   paused, processed, failed>>

NextFlashScore == flashscore_skip_unmapped \/ flashscore_load_html_GET \/ flashscore_return

-----------------------------------------------------------------------------
(* JSON values: [t, v] with t the type and v the content.  "str": v the characters;   *)
(* "list": v the items; "dict": v the items <<key, value>> in document order; "null":  *)
(* None; "invalid": a text json.loads rejects.                                         *)

J_null == [t |-> "null", v |-> <<>>]
J_invalid == [t |-> "invalid", v |-> <<>>]
J_str(s) == [t |-> "str", v |-> s]
J_list(items) == [t |-> "list", v |-> items]
J_dict(items) == [t |-> "dict", v |-> items]

\* payload.get(key) on a dict
json_get(payload, key) ==
    IF payload.t = "dict" /\ HasKey(payload.v, key) THEN Value(payload.v, key) ELSE J_null

\* truth value of a JSON value: None, "", [] and {} are false
json_true(j) == j.v # <<>>

\* a or b
json_or(a, b) == IF json_true(a) THEN a ELSE b

S_SportsEvent == <<"S", "p", "o", "r", "t", "s", "E", "v", "e", "n", "t">>
S_Event == <<"E", "v", "e", "n", "t">>

\* the outcome of a call that gives a list: the list it returned
Returned(items) == [kind |-> "return", matches |-> items]

\* the list of an outcome, nothing when the call raised
returned(outcome) == IF outcome.kind = "return" THEN outcome.matches ELSE <<>>

\* collected.extend(...) twice in a row: the first exception of the two calls, or the
\* two lists joined
extended(first, rest) ==
    IF first.kind = "raised" THEN first
    ELSE IF rest.kind = "raised" THEN rest
    ELSE Returned(first.matches \o rest.matches)

\* payload.get("@type") in {"SportsEvent", "Event"}: "True", "False", or "TypeError"
\* when the type is a list or a dict, which a set cannot hash
is_event(payload) ==
    IF json_get(payload, "@type").t \in {"list", "dict"} THEN "TypeError"
    ELSE IF json_get(payload, "@type").t = "str"
            /\ json_get(payload, "@type").v \in {S_SportsEvent, S_Event}
    THEN "True"
    ELSE "False"

\* _collect_events_from_json with the keys it descends into: the payload itself when it
\* is an event, then the events under each key, in the order of the keys; the call
\* raises TypeError at the first dict it visits whose type cannot be hashed
RECURSIVE collect_events(_, _)
RECURSIVE collect_from_items(_, _)
RECURSIVE collect_from_keys(_, _, _)
collect_events(payload, keys) ==
    IF payload.t = "list" THEN collect_from_items(payload.v, keys)
    ELSE IF payload.t # "dict" THEN Returned(<<>>)
    ELSE IF is_event(payload) = "TypeError" THEN Raised("TypeError")
    ELSE extended(Returned(IF is_event(payload) = "True" THEN <<payload>> ELSE <<>>),
                  collect_from_keys(payload, keys, keys))

collect_from_items(items, keys) ==
    IF items = <<>> THEN Returned(<<>>)
    ELSE extended(collect_events(Head(items), keys), collect_from_items(Tail(items), keys))

collect_from_keys(payload, todo, keys) ==
    IF todo = <<>> THEN Returned(<<>>)
    ELSE extended(IF json_true(json_get(payload, Head(todo)))
                  THEN collect_events(json_get(payload, Head(todo)), keys)
                  ELSE Returned(<<>>),
                  collect_from_keys(payload, Tail(todo), keys))

-----------------------------------------------------------------------------
(* dateutil.parser.parse on the texts of the model: an ISO date, optionally followed  *)
(* by "T" or " " and HH:MM or HH:MM:SS, optionally followed by "Z" or +HH:00 / -HH:00; *)
(* every other text is one the parser rejects (ParserError, a ValueError).            *)

DigitsAt(s, i, n) == \A k \in 0..(n - 1) : DigitAt(s, i + k)

\* the text has the shape YYYY-MM-DD at its start
iso_date_shape(s) ==
    Len(s) >= 10 /\ DigitsAt(s, 1, 4) /\ s[5] = "-" /\ DigitsAt(s, 6, 2) /\ s[8] = "-"
    /\ DigitsAt(s, 9, 2)

\* length of the time part (separator, HH:MM, optional :SS) that starts at index 11
iso_time_len(s) ==
    IF Len(s) >= 16 /\ s[11] \in {"T", " "} /\ DigitsAt(s, 12, 2) /\ s[14] = ":"
       /\ DigitsAt(s, 15, 2)
    THEN (IF Len(s) >= 19 /\ s[17] = ":" /\ DigitsAt(s, 18, 2) THEN 9 ELSE 6)
    ELSE 0

\* the zone part: "" (naive), "Z", or a sign, two digits and ":00"
iso_zone_shape(z) ==
    \/ z = <<>>
    \/ z = <<"Z">>
    \/ Len(z) = 6 /\ z[1] \in {"+", "-"} /\ DigitsAt(z, 2, 2) /\ SubSeq(z, 4, 6) = <<":", "0", "0">>

iso_zone_offset(z) ==
    IF Len(z) = 6 THEN (IF z[1] = "-" THEN 0 - int(SubSeq(z, 2, 3)) ELSE int(SubSeq(z, 2, 3)))
    ELSE 0

\* the datetime of the fields read from the text, if they are in range; the parser
\* takes every two-digit hour as a zone offset
iso_datetime(y, m, d, h, mi, sec, z) ==
    IF ValidDate(y, m, d) /\ h \in 0..23 /\ mi \in 0..59 /\ sec \in 0..59
    THEN <<DateTime(y, m, d, h, mi, sec, z # <<>>, iso_zone_offset(z))>>
    ELSE <<>>

\* the datetime of a text whose time part has n characters
iso_parse_timed(s, n) ==
    IF ~iso_zone_shape(From(s, 11 + n)) \/ (n = 0 /\ Len(s) > 10) THEN <<>>
    ELSE iso_datetime(int(SubSeq(s, 1, 4)), int(SubSeq(s, 6, 7)), int(SubSeq(s, 9, 10)),
                      IF n = 0 THEN 0 ELSE int(SubSeq(s, 12, 13)),
                      IF n = 0 THEN 0 ELSE int(SubSeq(s, 15, 16)),
                      IF n = 9 THEN int(SubSeq(s, 18, 19)) ELSE 0,
                      From(s, 11 + n))

\* dateparser.parse(text): zero (the parser raised) or one datetime
dateparser_parse(s) == IF iso_date_shape(s) THEN iso_parse_timed(s, iso_time_len(s)) ELSE <<>>

\* the datetime the GE providers keep: TZ.localize(dt) of a naive one, dt.astimezone(TZ)
\* of an aware one
in_sao_paulo(dt) == IF dt.aware THEN astimezone(dt) ELSE localize(dt)

-----------------------------------------------------------------------------
(* providers/ge_mineiro_provider.py *)

S_ge_mineiro == <<"g", "e", "_", "m", "i", "n", "e", "i", "r", "o">>

\* keys _collect_events_from_json of ge_mineiro descends into
GE_EVENT_KEYS == <<"@graph", "graph", "events", "event", "itemListElement">>

\* ge_mineiro_provider._collect_events_from_json
ge_collect_events_from_json(payload) == collect_events(payload, GE_EVENT_KEYS)

\* _extract_jsonld_matches over the contents of the ld+json scripts of the page
RECURSIVE _extract_jsonld_matches(_)
_extract_jsonld_matches(scripts) ==
    IF scripts = <<>> THEN Returned(<<>>)
    ELSE extended(IF Head(scripts).t = "invalid" THEN Returned(<<>>)
                  ELSE ge_collect_events_from_json(Head(scripts)),
                  _extract_jsonld_matches(Tail(scripts)))

\* the loop of _extract_participant over a list: the name of the first dict item that
\* has one, of whatever type, or None
RECURSIVE first_named(_)
first_named(items) ==
    IF items = <<>> THEN J_null
    ELSE IF Head(items).t = "dict" /\ json_true(json_get(Head(items), "name"))
    THEN json_get(Head(items), "name")
    ELSE first_named(Tail(items))

\* ge_mineiro_provider._extract_participant on data = event.get(key): the JSON value it
\* returns, a name of whatever type or None
participant_name(data) ==
    IF data.t = "dict"
    THEN (IF json_true(json_or(json_get(data, "name"), json_get(data, "alternateName")))
          THEN json_or(json_get(data, "name"), json_get(data, "alternateName"))
          ELSE J_null)
    ELSE IF data.t = "list" THEN first_named(data.v)
    ELSE IF data.t = "str" THEN data
    ELSE J_null

ge_extract_participant(event, key) == participant_name(json_get(event, key))

\* venue of _convert_event from venue_block = event.get("location") or event.get("venue"):
\* the JSON value, of whatever type, or None
venue_name(venue_block) ==
    IF venue_block.t = "dict"
    THEN json_or(json_get(venue_block, "name"), json_get(venue_block, "address"))
    ELSE IF venue_block.t = "str" THEN venue_block
    ELSE J_null

\* ge_mineiro_provider._build_external_id: the text that is hashed; SHA-1 is taken to be
\* injective on the texts of the model
ge_build_external_id(dt_str, home, away, venue) ==
    Lower(S_ge_mineiro \o <<"|">> \o datetime_text(dt_str) \o <<"|">> \o home \o <<"|">>
          \o away \o <<"|">> \o venue)

\* the record _convert_event returns
converted(event, dt_str, home, away, venue) ==
    [external_id |-> ge_build_external_id(dt_str, home, away, venue),
     match_datetime |-> dt_str,
     home_team |-> home,
     away_team |-> away,
     venue |-> venue,
     status |-> json_or(json_or(json_get(event, "eventStatus"), json_get(event, "status")),
                        J_str(S_scheduled)).v]

\* _convert_event from `if not home or not away` on, home, away and venue being JSON
\* values: name.strip() of _canonical_name raises AttributeError on a name that is no
\* str, and "|".join of _build_external_id raises TypeError on a venue that is neither
\* false nor a str
convert_named(event, dt_str, home, away, venue) ==
    IF ~json_true(home) \/ ~json_true(away) THEN Returned(<<>>)
    ELSE IF home.t # "str" \/ away.t # "str" THEN Raised("AttributeError")
    ELSE IF json_true(venue) /\ venue.t # "str" THEN Raised("TypeError")
    ELSE Returned(<<converted(event, dt_str, _canonical_name(home.v),
                              _canonical_name(away.v), venue.v)>>)

\* _convert_event from `dt_str = dt.strftime(...)` on
convert_located(event, dt_str, venue) ==
    convert_named(event, dt_str, ge_extract_participant(event, "homeTeam"),
                  ge_extract_participant(event, "awayTeam"), venue)

\* _convert_event from `dt = dateparser.parse(str(start_value))` on: dt.astimezone(TZ)
\* stands outside the try, so its ValueError leaves the function
convert_parsed(event, dt) ==
    IF dt = <<>> THEN Returned(<<>>)
    ELSE IF astimezone_raises(dt[1]) THEN Raised("ValueError")
    ELSE convert_located(event, strftime(in_sao_paulo(dt[1])),
                         venue_name(json_or(json_get(event, "location"),
                                            json_get(event, "venue"))))

\* _convert_event from the start value on
convert_started(event, start_value) ==
    IF ~json_true(start_value) THEN Returned(<<>>)
    ELSE IF start_value.t # "str" THEN Returned(<<>>)
    ELSE convert_parsed(event, dateparser_parse(start_value.v))

\* ge_mineiro_provider._convert_event: an outcome with zero or one record, or ValueError
_convert_event(event) ==
    convert_started(event, json_or(json_or(json_get(event, "startDate"),
                                           json_get(event, "startTime")),
                                   json_get(event, "start_date")))

\* ge_mineiro_provider._is_target_match
ge_is_target_match(match) ==
    \/ Lower(Strip(match.home_team)) \in TARGET_TEAMS
    \/ Lower(Strip(match.away_team)) \in TARGET_TEAMS

\* what the loop of fetch_matches does with the result of _convert_event: the ValueError
\* of strptime, which stands in no try, or the list of the matches it appends
ge_kept(match, dfrom, dto) ==
    IF match = <<>> THEN Returned(<<>>)
    ELSE IF strptime(match[1].match_datetime) = <<>> THEN Raised("ValueError")
    ELSE IF ~InWindow(DateOf(strptime(match[1].match_datetime)[1]), dfrom, dto)
    THEN Returned(<<>>)
    ELSE IF ~ge_is_target_match(match[1]) THEN Returned(<<>>)
    ELSE Returned(match)

\* the loop of ge_mineiro_provider.fetch_matches over the raw events
RECURSIVE ge_matches(_, _, _)
ge_matches(raw_events, dfrom, dto) ==
    IF raw_events = <<>> THEN Returned(<<>>)
    ELSE IF _convert_event(Head(raw_events)).kind = "raised"
    THEN _convert_event(Head(raw_events))
    ELSE extended(ge_kept(_convert_event(Head(raw_events)).matches, dfrom, dto),
                  ge_matches(Tail(raw_events), dfrom, dto))

\* fetch_matches from `raw_events = _extract_jsonld_matches(soup)` on: the matches it
\* returns, or the exception that leaves it
ge_fetched(scripts, dfrom, dto) ==
    IF _extract_jsonld_matches(scripts).kind = "raised" THEN _extract_jsonld_matches(scripts)
    ELSE ge_matches(_extract_jsonld_matches(scripts).matches, dfrom, dto)

-----------------------------------------------------------------------------
(* Inputs of the ge_mineiro run *)

GeEvent(type, start, home, away, location) ==
    J_dict(<<<<"@type", J_str(type)>>, <<"startDate", start>>, <<"homeTeam", home>>,
             <<"awayTeam", away>>, <<"location", location>>>>)

Named(name) == J_dict(<<<<"name", J_str(name)>>>>)

S_Mineirao == <<"M", "i", "n", "e", "i", "r", "a", "o">>

GE_a ==
    GeEvent(S_SportsEvent, J_str(<<"2", "0", "2", "6", "-", "0", "3", "-", "1", "5", "T", "1", "6", ":", "0", "0", ":", "0", "0", "-", "0", "3", ":", "0", "0">>),
            Named(S_Cruzeiro), Named(S_Galo), Named(S_Mineirao))
\* the home name is one space
GE_ws ==
    GeEvent(S_SportsEvent, J_str(<<"2", "0", "2", "6", "-", "0", "3", "-", "2", "2", "T", "1", "8", ":", "3", "0", ":", "0", "0", "-", "0", "3", ":", "0", "0">>),
            Named(<<" ">>), Named(S_Cruzeiro), J_null)
\* 2026-07-01 02:00 UTC is 2026-06-30 23:00 in Sao Paulo: the last day of the window
GE_edge ==
    GeEvent(S_Event, J_str(<<"2", "0", "2", "6", "-", "0", "7", "-", "0", "1", "T", "0", "2", ":", "0", "0", ":", "0", "0", "Z">>),
            J_str(S_Atletico_Mineiro), J_list(<<J_str(S_Betim), Named(S_Betim)>>),
            J_str(S_Mineirao))
GE_out ==
    GeEvent(S_SportsEvent, J_str(<<"2", "0", "2", "6", "-", "0", "7", "-", "0", "2", "T", "2", "0", ":", "0", "0", ":", "0", "0", "Z">>),
            Named(S_Cruzeiro), Named(S_Betim), J_null)
\* a date without a time
GE_dateonly ==
    GeEvent(S_SportsEvent, J_str(<<"2", "0", "2", "6", "-", "0", "4", "-", "0", "5">>),
            Named(S_AmericaMG), Named(S_Betim), J_null)
GE_badstart ==
    GeEvent(S_SportsEvent, J_str(<<"T", "B", "D">>), Named(S_Cruzeiro), Named(S_Betim), J_null)
GE_badday ==
    GeEvent(S_SportsEvent, J_str(<<"2", "0", "2", "6", "-", "0", "2", "-", "3", "1", "T", "1", "6", ":", "0", "0">>),
            Named(S_Cruzeiro), Named(S_Betim), J_null)
GE_other ==
    GeEvent(S_SportsEvent, J_str(<<"2", "0", "2", "6", "-", "0", "3", "-", "1", "5", "T", "1", "6", ":", "0", "0", ":", "0", "0", "-", "0", "3", ":", "0", "0">>),
            Named(S_Brazil), Named(S_Chile), J_null)
GE_noaway ==
    GeEvent(S_SportsEvent, J_str(<<"2", "0", "2", "6", "-", "0", "3", "-", "1", "5", "T", "1", "6", ":", "0", "0", ":", "0", "0", "-", "0", "3", ":", "0", "0">>),
            Named(S_Cruzeiro), J_null, J_null)
\* not an event by its type
GE_place ==
    GeEvent(<<"P", "l", "a", "c", "e">>, J_str(<<"2", "0", "2", "6", "-", "0", "3", "-", "1", "5", "T", "1", "6", ":", "0", "0", ":", "0", "0", "-", "0", "3", ":", "0", "0">>),
            Named(S_Cruzeiro), Named(S_Galo), J_null)
\* the type is a list, as JSON-LD allows
GE_typelist ==
    J_dict(<<<<"@type", J_list(<<J_str(S_SportsEvent)>>)>>,
             <<"startDate", J_str(<<"2", "0", "2", "6", "-", "0", "3", "-", "1", "5", "T", "1", "6", ":", "0", "0", ":", "0", "0", "-", "0", "3", ":", "0", "0">>)>>,
             <<"homeTeam", Named(S_Cruzeiro)>>, <<"awayTeam", Named(S_Galo)>>>>)
\* the name of the home team is a list
GE_listname ==
    GeEvent(S_SportsEvent, J_str(<<"2", "0", "2", "6", "-", "0", "3", "-", "1", "5", "T", "1", "6", ":", "0", "0", ":", "0", "0", "-", "0", "3", ":", "0", "0">>),
            J_dict(<<<<"name", J_list(<<J_str(S_Cruzeiro)>>)>>>>), Named(S_Galo), J_null)
\* the address of the place is an object
GE_address ==
    GeEvent(S_SportsEvent, J_str(<<"2", "0", "2", "6", "-", "0", "3", "-", "1", "5", "T", "1", "6", ":", "0", "0", ":", "0", "0", "-", "0", "3", ":", "0", "0">>),
            Named(S_Cruzeiro), Named(S_Galo),
            J_dict(<<<<"address", J_dict(<<<<"addressLocality", J_str(S_Mineirao)>>>>)>>>>))
\* a zone of 24 hours, which the parser accepts
GE_farzone ==
    GeEvent(S_SportsEvent, J_str(<<"2", "0", "2", "6", "-", "0", "3", "-", "1", "5", "T", "1", "6", ":", "0", "0", ":", "0", "0", "-", "2", "4", ":", "0", "0">>),
            Named(S_Cruzeiro), Named(S_Galo), J_null)

\* pages, each the contents of its ld+json scripts in document order
GePages ==
    << <<>>,
       <<J_list(<<GE_a, GE_ws, GE_place>>)>>,
       <<J_dict(<<<<"@graph", J_list(<<GE_a, GE_out>>)>>>>), J_invalid, GE_a>>,
       <<J_dict(<<<<"@type", J_str(S_Event)>>,
                  <<"itemListElement",
                    J_list(<<J_dict(<<<<"event", GE_edge>>>>), GE_dateonly>>)>>,
                  <<"events", J_list(<<GE_badstart, GE_badday, GE_other, GE_noaway>>)>>>>)>>,
       <<J_list(<<GE_a, GE_typelist>>)>>,
       <<J_list(<<GE_a, GE_farzone, GE_edge>>)>>,
       <<J_list(<<GE_edge, GE_listname>>)>>,
       <<J_list(<<GE_address>>)>> >>

\* outcomes of the GET of the page: a page, or a failed request (status 0: no response)
GeResponses ==
    [i \in 1..Len(GePages) |-> [kind |-> "ok", code |-> 200, scripts |-> GePages[i]]]
    \o <<[kind |-> "http_error", code |-> 403, scripts |-> <<>>],
         [kind |-> "http_error", code |-> 404, scripts |-> <<>>],
         [kind |-> "http_error", code |-> 500, scripts |-> <<>>],
         [kind |-> "timeout", code |-> 0, scripts |-> <<>>]>>

-----------------------------------------------------------------------------
(* providers/ge_mineiro_provider.py: fetch_matches *)

InitGeMineiro ==
    /\ prog = "ge_mineiro"
    /\ teams = <<>>
    /\ pc = "fetch"
    /\ InitProvider

\* fetch_matches: the GET of the page and everything after it
ge_mineiro_fetch_matches ==
    /\ prog = "ge_mineiro"
    /\ pc = "fetch"
    /\ \E i \in 1..Len(GeResponses) :
          /\ last_resp' = Seen(GeResponses[i], "page")
          /\ all_matches' =
                 IF GeResponses[i].kind = "ok"
                 THEN returned(ge_fetched(GeResponses[i].scripts, date_from, date_to))
                 ELSE <<>>
          /\ failed' = IF GeResponses[i].kind = "ok" THEN failed ELSE {1}
          /\ result' =
                 IF GeResponses[i].kind = "ok"
                    /\ ge_fetched(GeResponses[i].scripts, date_from, date_to).kind = "raised"
                 THEN "raised" ELSE "return"
    /\ matches' = all_matches'
    /\ pc' = IF result' = "raised" THEN "raised" ELSE "done"
    /\ UNCHANGED <<call, prog, teams, date_from, date_to, ti, ep, attempt, backoff, team_id,
                   seen_events, endpoint_success_count, posted, paused, processed>>

NextGeMineiro == ge_mineiro_fetch_matches

-----------------------------------------------------------------------------
(* A parsed HTML page: a node is [tag, cls, text, kids]; a text node has the tag      *)
(* "#text" and its characters in text, an element has its class attribute in cls and  *)
(* its children in kids.  An element of the page is named by its path, the child      *)
(* indices from the root.                                                             *)

TextNode(text) == [tag |-> "#text", cls |-> <<>>, text |-> text, kids |-> <<>>]
Element(tag, cls, kids) == [tag |-> tag, cls |-> cls, text |-> <<>>, kids |-> kids]

RECURSIVE node_at(_, _)
node_at(node, path) ==
    IF path = <<>> THEN node ELSE node_at(node.kids[Head(path)], Tail(path))

\* node.stripped_strings
RECURSIVE stripped_strings(_)
RECURSIVE stripped_strings_of(_)
stripped_strings(node) ==
    IF node.tag = "#text" THEN (IF Strip(node.text) = <<>> THEN <<>> ELSE <<Strip(node.text)>>)
    ELSE stripped_strings_of(node.kids)

stripped_strings_of(kids) ==
    IF kids = <<>> THEN <<>>
    ELSE stripped_strings(Head(kids)) \o stripped_strings_of(Tail(kids))

\* node.get_text(" ", strip=True)
get_text(node) == Join(stripped_strings(node), <<" ">>)

\* the elements below the element at path, in document order, as paths
RECURSIVE descendants(_, _)
RECURSIVE descendants_from(_, _, _)
descendants(root, path) == descendants_from(root, path, 1)

descendants_from(root, path, i) ==
    IF i > Len(node_at(root, path).kids) THEN <<>>
    ELSE (IF node_at(root, path).kids[i].tag = "#text" THEN <<>>
          ELSE <<Append(path, i)>> \o descendants(root, Append(path, i)))
         \o descendants_from(root, path, i + 1)

\* the paths whose element has one of the tags
RECURSIVE with_tag(_, _, _)
with_tag(root, paths, tags) ==
    IF paths = <<>> THEN <<>>
    ELSE (IF node_at(root, Head(paths)).tag \in tags THEN <<Head(paths)>> ELSE <<>>)
         \o with_tag(root, Tail(paths), tags)

\* node.find_all(tags) below the element at path
find_all(root, path, tags) == with_tag(root, descendants(root, path), tags)

\* header.find_parent(["section", "div"]) or header.parent, as a path
RECURSIVE find_parent(_, _)
find_parent(root, path) ==
    IF path = <<>> THEN <<>>
    ELSE IF node_at(root, SubSeq(path, 1, Len(path) - 1)).tag \in {"section", "div"}
    THEN SubSeq(path, 1, Len(path) - 1)
    ELSE find_parent(root, SubSeq(path, 1, Len(path) - 1))

container_of(root, header) ==
    IF \E n \in 0..(Len(header) - 1) : node_at(root, SubSeq(header, 1, n)).tag \in {"section", "div"}
    THEN find_parent(root, header)
    ELSE SubSeq(header, 1, Len(header) - 1)

-----------------------------------------------------------------------------
(* providers/ge_globo_mineiro_provider.py *)

S_jogos == <<"j", "o", "g", "o", "s">>
S_rodada == <<"r", "o", "d", "a", "d", "a">>
S_COMPETITION_NAME == <<"C", "a", "m", "p", "e", "o", "n", "a", "t", "o", " ", "M", "i", "n", "e", "i", "r", "o">>

\* re.search(r"[x×]", text)
has_versus(text) == \E i \in 1..Len(text) : text[i] \in {"x", "times"}

\* the loop of _locate_jogos_sections over the headers: the containers, each once
RECURSIVE jogos_containers(_, _, _)
jogos_containers(root, headers, sections) ==
    IF headers = <<>> THEN sections
    ELSE IF (IsSubstring(S_jogos, Lower(get_text(node_at(root, Head(headers)))))
             \/ IsSubstring(S_rodada, Lower(get_text(node_at(root, Head(headers))))))
            /\ ~\E i \in 1..Len(sections) : sections[i] = container_of(root, Head(headers))
    THEN jogos_containers(root, Tail(headers),
                          Append(sections, container_of(root, Head(headers))))
    ELSE jogos_containers(root, Tail(headers), sections)

\* soup.find("section", class_=re.compile("jogos", re.I)): zero or one path
RECURSIVE first_jogos_section(_, _)
first_jogos_section(root, paths) ==
    IF paths = <<>> THEN <<>>
    ELSE IF IsSubstring(S_jogos, Lower(node_at(root, Head(paths)).cls))
    THEN <<Head(paths)>>
    ELSE first_jogos_section(root, Tail(paths))

\* _locate_jogos_sections: the paths of the sections
_locate_jogos_sections(root) ==
    IF jogos_containers(root, find_all(root, <<>>, {"h2", "h3", "h4", "h5"}), <<>>) # <<>>
    THEN jogos_containers(root, find_all(root, <<>>, {"h2", "h3", "h4", "h5"}), <<>>)
    ELSE IF first_jogos_section(root, find_all(root, <<>>, {"section"})) # <<>>
    THEN first_jogos_section(root, find_all(root, <<>>, {"section"}))
    ELSE <<<<>>>>

\* the loop of _find_candidate_cards over the tags found
RECURSIVE candidate_cards(_, _)
candidate_cards(root, paths) ==
    IF paths = <<>> THEN <<>>
    ELSE (IF get_text(node_at(root, Head(paths))) # <<>>
             /\ has_versus(get_text(node_at(root, Head(paths))))
          THEN <<Head(paths)>> ELSE <<>>)
         \o candidate_cards(root, Tail(paths))

\* _find_candidate_cards: every article, li and div below the section whose text has an
\* "x", nested ones included
_find_candidate_cards(root, section) ==
    candidate_cards(root, find_all(root, section, {"article", "li", "div"}))

\* _find_teams_line: the first line with an "x", else the whole text
RECURSIVE _find_teams_line(_, _)
_find_teams_line(lines, raw_text) ==
    IF lines = <<>> THEN raw_text
    ELSE IF has_versus(Head(lines)) THEN Head(lines)
    ELSE _find_teams_line(Tail(lines), raw_text)

\* the first index after i that holds no whitespace (Len(s) + 1 if none)
RECURSIVE after_spaces(_, _)
after_spaces(s, i) ==
    IF i <= Len(s) /\ s[i] \in Whitespace THEN after_spaces(s, i + 1) ELSE i

\* \s+[chars] matches at index i
spaces_then(s, i, chars) ==
    /\ s[i] \in Whitespace
    /\ after_spaces(s, i) <= Len(s)
    /\ s[after_spaces(s, i)] \in chars

\* \s+[x×]\s+ matches at index i
versus_at(s, i) ==
    /\ spaces_then(s, i, {"x", "times"})
    /\ after_spaces(s, i) < Len(s)
    /\ s[after_spaces(s, i) + 1] \in Whitespace

\* characters that end the away name when they follow whitespace
AWAY_END == {"bullet", "-", "("}

\* re.split(r"\s+[•\-\(].*", text)[0].strip() on a text of one line
away_name(text) ==
    IF \E i \in 1..Len(text) : spaces_then(text, i, AWAY_END)
    THEN Strip(SubSeq(text, 1, Min({i \in 1..Len(text) : spaces_then(text, i, AWAY_END)}) - 1))
    ELSE Strip(text)

\* _extract_team_names from the index where \s+[x×]\s+ matches first
team_names_split_at(teams_line, i) ==
    <<RStrip(Strip(SubSeq(teams_line, 1, i - 1)), {"bullet", "-", "endash"}),
      away_name(From(teams_line, after_spaces(teams_line, after_spaces(teams_line, i) + 1)))>>

\* _extract_team_names: <<home, away>>, both empty (None) when the line does not split
_extract_team_names(teams_line) ==
    IF \E i \in 1..Len(teams_line) : versus_at(teams_line, i)
    THEN team_names_split_at(teams_line,
                             Min({i \in 1..Len(teams_line) : versus_at(teams_line, i)}))
    ELSE <<<<>>, <<>>>>

\* re.match(r"\d{1,2}/\d{1,2}", token)
is_date_token(token) ==
    \/ DigitAt(token, 1) /\ Len(token) >= 3 /\ token[2] = "/" /\ DigitAt(token, 3)
    \/ DigitsAt(token, 1, 2) /\ Len(token) >= 4 /\ token[3] = "/" /\ DigitAt(token, 4)

\* re.match(r"\d{1,2}:\d{2}", token)
is_time_token(token) ==
    \/ DigitAt(token, 1) /\ Len(token) >= 4 /\ token[2] = ":" /\ DigitsAt(token, 3, 2)
    \/ DigitsAt(token, 1, 2) /\ Len(token) >= 5 /\ token[3] = ":" /\ DigitsAt(token, 4, 2)

\* the loop of _parse_date_time_from_text over the tokens: the last date token and the
\* last time token
RECURSIVE last_tokens(_, _, _)
last_tokens(tokens, date_token, time_token) ==
    IF tokens = <<>> THEN [date |-> date_token, time |-> time_token]
    ELSE last_tokens(Tail(tokens),
                     IF is_date_token(Strip(Head(tokens))) THEN Strip(Head(tokens))
                     ELSE date_token,
                     IF is_time_token(Strip(Head(tokens))) THEN Strip(Head(tokens))
                     ELSE time_token)

_parse_date_time_from_text(text) ==
    last_tokens(Split(text, {"bullet", "-", "|", "\n"}), <<>>, <<>>)

\* stadium_markers of _parse_stadium_from_lines
STADIUM_MARKERS ==
    <<<<"m", "i", "n", "e", "i", "r", "a_tilde", "o">>,
      <<"a", "r", "e", "n", "a">>,
      <<"i", "n", "d", "e", "p", "e", "n", "d", "e_circ", "n", "c", "i", "a">>,
      <<"e", "s", "t", "a_acute", "d", "i", "o">>,
      <<"e", "s", "t", "a", "d", "i", "o">>,
      <<"s", "o", "a", "r", "e", "s">>,
      <<"i", "t", "a", "c", "o", "l", "o", "m", "i">>,
      <<"c", "a", "s", "t", "e", "l", "a_tilde", "o">>>>

\* possible of _parse_stadium_from_text
STADIUM_NAMES ==
    <<<<"M", "i", "n", "e", "i", "r", "a_tilde", "o">>,
      <<"A", "r", "e", "n", "a", " ", "M", "R", "V">>,
      <<"I", "n", "d", "e", "p", "e", "n", "d", "e_circ", "n", "c", "i", "a">>,
      <<"S", "o", "a", "r", "e", "s">>,
      <<"E", "s", "t", "a_acute", "d", "i", "o">>,
      <<"A", "r", "e", "n", "a">>>>

\* _parse_stadium_from_lines: the first line with a marker and no digit, or None
RECURSIVE _parse_stadium_from_lines(_)
_parse_stadium_from_lines(lines) ==
    IF lines = <<>> THEN <<>>
    ELSE IF (\E k \in 1..Len(STADIUM_MARKERS) : IsSubstring(STADIUM_MARKERS[k], Lower(Head(lines))))
            /\ ~\E i \in 1..Len(Head(lines)) : DigitAt(Head(lines), i)
    THEN Head(lines)
    ELSE _parse_stadium_from_lines(Tail(lines))

\* _parse_stadium_from_text: the first name found in the text, or None
_parse_stadium_from_text(text) ==
    IF \E k \in 1..Len(STADIUM_NAMES) : IsSubstring(Lower(STADIUM_NAMES[k]), Lower(text))
    THEN STADIUM_NAMES[Min({k \in 1..Len(STADIUM_NAMES) :
                               IsSubstring(Lower(STADIUM_NAMES[k]), Lower(text))})]
    ELSE <<>>

S_midnight == <<"0", "0", ":", "0", "0">>

\* _parse_game_card from the team names on: zero or one raw event
game_card_event(names, tokens, stadium) ==
    IF names[1] = <<>> \/ names[2] = <<>> THEN <<>>
    ELSE <<[home_team |-> names[1],
            away_team |-> names[2],
            date |-> tokens.date,
            time |-> IF tokens.time = <<>> THEN S_midnight ELSE tokens.time,
            stadium |-> stadium]>>

\* _parse_game_card on the text and the lines of the card
game_card_parsed(text, lines) ==
    game_card_event(_extract_team_names(_find_teams_line(lines, text)),
                    _parse_date_time_from_text(text),
                    IF _parse_stadium_from_lines(lines) # <<>>
                    THEN _parse_stadium_from_lines(lines)
                    ELSE _parse_stadium_from_text(text))

_parse_game_card(card) == game_card_parsed(get_text(card), stripped_strings(card))

\* _parse_section_matches over the candidate cards of one section
RECURSIVE parse_game_cards(_, _)
parse_game_cards(root, cards) ==
    IF cards = <<>> THEN <<>>
    ELSE _parse_game_card(node_at(root, Head(cards))) \o parse_game_cards(root, Tail(cards))

\* _extract_matches_from_dom over the sections
RECURSIVE section_matches(_, _)
section_matches(root, sections) ==
    IF sections = <<>> THEN <<>>
    ELSE parse_game_cards(root, _find_candidate_cards(root, Head(sections)))
         \o section_matches(root, Tail(sections))

_extract_matches_from_dom(root) == section_matches(root, _locate_jogos_sections(root))

\* a decimal digit
IsDigit(c) == c \in SeqRange(DigitChars)

\* the digits of an int() literal after its sign: digits, with single underscores
\* allowed between two of them
int_literal_body(body) ==
    /\ body # <<>>
    /\ IsDigit(body[1]) /\ IsDigit(body[Len(body)])
    /\ \A i \in 1..Len(body) : IsDigit(body[i]) \/ body[i] = "_"
    /\ \A i \in 1..(Len(body) - 1) : ~(body[i] = "_" /\ body[i + 1] = "_")

\* the text of an int() literal without the white space around it and without its sign
int_unsigned(s) ==
    IF Strip(s) # <<>> /\ Strip(s)[1] \in {"+", "-"} THEN Tail(Strip(s)) ELSE Strip(s)

\* int(x) of a str: the number, or nothing when it raises ValueError; the text may carry
\* white space around it, a sign, and underscores between its digits
int_of_str(s) ==
    IF ~int_literal_body(int_unsigned(s)) THEN <<>>
    ELSE IF Strip(s)[1] = "-" THEN <<0 - int(SelectSeq(int_unsigned(s), IsDigit))>>
    ELSE <<int(SelectSeq(int_unsigned(s), IsDigit))>>

\* [int(x) for x in date_token.split("/")]: <<day, month>>, or nothing when it raises
date_token_numbers(parts) ==
    IF Len(parts) = 2 /\ int_of_str(parts[1]) # <<>> /\ int_of_str(parts[2]) # <<>>
    THEN <<int_of_str(parts[1])[1], int_of_str(parts[2])[1]>>
    ELSE <<>>

\* one or two digits, as %H and %M read them
clock_digits(part) == Len(part) \in 1..2 /\ (\A i \in 1..Len(part) : DigitAt(part, i))

\* the hour and the minute of the two parts of a time text, or nothing
clock_numbers(parts) ==
    IF Len(parts) # 2 THEN <<>>
    ELSE IF ~clock_digits(parts[1]) \/ ~clock_digits(parts[2]) THEN <<>>
    ELSE IF int(parts[1]) > 23 \/ int(parts[2]) > 59 THEN <<>>
    ELSE <<int(parts[1]), int(parts[2])>>

\* what strptime reads for " %H:%M" from the blank and the time token that end the text:
\* the blank of the format takes the white space at the start of the token, then come
\* an hour of one or two digits, a colon and a minute of one or two digits, and nothing
\* may follow; <<hour, minute>>, or nothing when strptime raises ValueError
time_token_numbers(time_token) ==
    clock_numbers(Split(LStrip(time_token, Whitespace), {":"}))

\* datetime.strptime(f"{day:02d}/{month:02d}/{year:04d} {time_token}", "%d/%m/%Y %H:%M"):
\* zero (ValueError) or one naive datetime
strptime_day(day, month, year, clock) ==
    IF clock # <<>> /\ ValidDate(year, month, day)
    THEN <<DateTime(year, month, day, clock[1], clock[2], 0, FALSE, 0)>>
    ELSE <<>>

\* _build_datetime_from_tokens from the numbers of the tokens on: the first candidate
\* year that puts the day in the window, else the first candidate year
build_datetime_in(dm, clock, dfrom, dto) ==
    IF dm = <<>> THEN <<>>
    ELSE IF year_in_window(candidate_years(dfrom, dto), dm[1], dm[2], dfrom, dto) # <<>>
            /\ clock # <<>>
    THEN <<localize(strptime_day(
               dm[1], dm[2],
               year_in_window(candidate_years(dfrom, dto), dm[1], dm[2], dfrom, dto)[1],
               clock)[1])>>
    ELSE IF strptime_day(dm[1], dm[2], candidate_years(dfrom, dto)[1], clock) # <<>>
    THEN <<localize(strptime_day(dm[1], dm[2], candidate_years(dfrom, dto)[1], clock)[1])>>
    ELSE <<>>

\* _build_datetime_from_tokens: zero or one aware datetime
_build_datetime_from_tokens(date_token, time_token, dfrom, dto) ==
    build_datetime_in(date_token_numbers(Split(date_token, {"/"})),
                      time_token_numbers(time_token), dfrom, dto)

\* ge_globo_mineiro_provider._build_external_id: the text that is hashed; SHA-1 is taken
\* to be injective on the texts of the model
globo_build_external_id(dt_str, home, away, venue) ==
    Lower(S_ge_mineiro \o <<"|">> \o S_COMPETITION_NAME \o <<"|">> \o datetime_text(dt_str)
          \o <<"|">> \o home \o <<"|">> \o away \o <<"|">> \o venue)

\* _normalize_event from the datetime on
globo_event_at(event, dt, home, away) ==
    IF dt = <<>> THEN <<>>
    ELSE IF home = <<>> \/ away = <<>> THEN <<>>
    ELSE <<[external_id |->
                globo_build_external_id(strftime(in_sao_paulo(dt[1])), home, away,
                                        event.stadium),
            match_datetime |-> strftime(in_sao_paulo(dt[1])),
            home_team |-> home,
            away_team |-> away,
            venue |-> event.stadium,
            status |-> S_scheduled]>>

\* ge_globo_mineiro_provider._normalize_event on an event of the page (an event read
\* from the cards has no match_datetime, startDate or startTime): zero or one record
globo_normalize_event(event, dfrom, dto) ==
    IF event.date = <<>> THEN <<>>
    ELSE globo_event_at(event,
                        _build_datetime_from_tokens(
                            event.date, IF event.time = <<>> THEN S_midnight ELSE event.time,
                            dfrom, dto),
                        canonicalize(event.home_team), canonicalize(event.away_team))

\* target_set of ge_globo_mineiro_provider.fetch_matches
target_set == {_normalized_for_comparison(teams[i]) : i \in 1..Len(teams)}

\* ge_globo_mineiro_provider._is_target_match
globo_is_target_match(match) ==
    \/ _normalized_for_comparison(match.home_team) \in target_set
    \/ _normalized_for_comparison(match.away_team) \in target_set

globo_kept(normalized) ==
    IF normalized = <<>> THEN <<>>
    ELSE IF ~globo_is_target_match(normalized[1]) THEN <<>>
    ELSE normalized

\* the loop of ge_globo_mineiro_provider.fetch_matches over the events
RECURSIVE globo_filtered(_, _, _)
globo_filtered(events, dfrom, dto) ==
    IF events = <<>> THEN <<>>
    ELSE globo_kept(globo_normalize_event(Head(events), dfrom, dto))
         \o globo_filtered(Tail(events), dfrom, dto)

-----------------------------------------------------------------------------
(* Inputs of the ge.globo.com page provider *)

GloboTeamNames == {S_Cruzeiro, S_Galo, S_Betim}

GloboTeamLists == UNION {[1..n -> GloboTeamNames] : n \in 0..MaxTeams}

\* a round under a header: a game in the window, one in August and one of other teams
PAGE_rodada ==
    Element("[document]", <<>>,
      <<Element("html", <<>>,
          <<Element("body", <<>>,
              <<Element("section", <<"j", "o", "g", "o", "s">>,
                  <<Element("h2", <<>>,
                      <<TextNode(<<"J", "o", "g", "o", "s">>)>>),
                    Element("ul", <<>>,
                      <<Element("li", <<>>,
                          <<TextNode(<<"C", "r", "u", "z", "e", "i", "r", "o", " ", "x", " ", "G", "a", "l", "o", " ", "bullet", " ", "1", "5", "/", "0", "3", " ", "bullet", " ", "1", "6", ":", "0", "0">>)>>),
                        Element("li", <<>>,
                          <<TextNode(<<"C", "r", "u", "z", "e", "i", "r", "o", " ", "x", " ", "B", "e", "t", "i", "m", " ", "bullet", " ", "1", "5", "/", "0", "8", " ", "bullet", " ", "2", "0", ":", "0", "0">>)>>),
                        Element("li", <<>>,
                          <<TextNode(<<"B", "r", "a", "z", "i", "l", " ", "x", " ", "C", "h", "i", "l", "e", " ", "bullet", " ", "1", "6", "/", "0", "3", " ", "bullet", " ", "1", "6", ":", "0", "0">>)>>)>>)>>)>>)>>)>>)

\* a game in a li inside a div, and a game whose lines are in spans
PAGE_nested ==
    Element("[document]", <<>>,
      <<Element("html", <<>>,
          <<Element("body", <<>>,
              <<Element("div", <<"r", "o", "d", "a", "d", "a">>,
                  <<Element("h3", <<>>,
                      <<TextNode(<<"R", "o", "d", "a", "d", "a", " ", "3">>)>>),
                    Element("div", <<"j", "o", "g", "o">>,
                      <<Element("ul", <<>>,
                          <<Element("li", <<>>,
                              <<TextNode(<<" ", "G", "a", "l", "o", " ", "x", " ", "B", "e", "t", "i", "m", " ", "bullet", " ", "1", "5", "/", "0", "3", " ", "bullet", " ", "1", "6", ":", "0", "0", " ">>)>>)>>)>>),
                    Element("article", <<>>,
                      <<Element("span", <<>>,
                          <<TextNode(<<"B", "e", "t", "i", "m", " ", "times", " ", "C", "r", "u", "z", "e", "i", "r", "o">>)>>),
                        Element("span", <<>>,
                          <<TextNode(<<"bullet", " ", "2", "2", "/", "0", "3", " ", "bullet", " ", "1", "8", ":", "3", "0", " ", "bullet">>)>>),
                        Element("span", <<>>,
                          <<TextNode(<<"A", "r", "e", "n", "a", " ", "M", "R", "V">>)>>)>>)>>)>>)>>)>>)

\* no game on the page
PAGE_soon ==
    Element("[document]", <<>>,
      <<Element("html", <<>>,
          <<Element("body", <<>>,
              <<Element("p", <<>>,
                  <<TextNode(<<"E", "m", " ", "b", "r", "e", "v", "e">>)>>)>>)>>)>>)

\* no header: a game without a home team, a day that does not exist, a game without a time
PAGE_listing ==
    Element("[document]", <<>>,
      <<Element("html", <<>>,
          <<Element("body", <<>>,
              <<Element("section", <<"l", "i", "s", "t", "a", "-", "j", "o", "g", "o", "s">>,
                  <<Element("article", <<>>,
                      <<TextNode(<<"bullet", " ", "x", " ", "C", "r", "u", "z", "e", "i", "r", "o", " ", "bullet", " ", "1", "5", "/", "0", "3", " ", "bullet", " ", "1", "6", ":", "0", "0">>)>>),
                    Element("article", <<>>,
                      <<TextNode(<<"G", "a", "l", "o", " ", "x", " ", "C", "r", "u", "z", "e", "i", "r", "o", " ", "-", " ", "2", "9", "/", "0", "2", " ", "-", " ", "1", "9", ":", "3", "0">>)>>),
                    Element("article", <<>>,
                      <<TextNode(<<"C", "r", "u", "z", "e", "i", "r", "o", " ", "x", " ", "B", "e", "t", "i", "m", " ", "|", " ", "1", "0", "/", "0", "4">>)>>)>>)>>)>>)>>)

GloboPages == <<PAGE_rodada, PAGE_nested, PAGE_soon, PAGE_listing>>

\* what session.get gives: a page, an empty body, an HTTP error or a timeout
GloboResponses ==
    [i \in 1..Len(GloboPages) |-> [kind |-> "ok", code |-> 200, page |-> <<i>>]]
    \o <<[kind |-> "ok", code |-> 200, page |-> <<>>],
         [kind |-> "http_error", code |-> 403, page |-> <<>>],
         [kind |-> "http_error", code |-> 500, page |-> <<>>],
         [kind |-> "timeout", code |-> 0, page |-> <<>>]>>

\* the text CACHE_FILE gives: none (there is no file, or the file is empty, as after an
\* empty body was written to it with GE_CACHE=1), or one of the pages
GloboCaches == {<<>>} \cup {<<i>> : i \in 1..Len(GloboPages)}

\* builds on which the annotations of a def are evaluated when the module is loaded
\* (CPython before 3.14) and builds on which they are not
AnnotationModes == {"eager", "deferred"}

-----------------------------------------------------------------------------
(* providers/ge_globo_mineiro_provider.py: fetch_matches *)

InitGeGlobo ==
    /\ prog = "ge_globo"
    /\ teams \in GloboTeamLists
    /\ pc = "import"
    /\ InitProvider

\* import of the module: the annotation of _extract_team_names names Tuple, which the
\* module never imports, so loading raises NameError where annotations are evaluated
ge_globo_import ==
    /\ prog = "ge_globo"
    /\ pc = "import"
    /\ \E mode \in AnnotationModes :
          IF mode = "eager"
          THEN pc' = "raised" /\ result' = "raised"
          ELSE pc' = "fetch" /\ result' = result
    /\ UNCHANGED <<call, prog, teams, date_from, date_to, ti, ep, attempt, backoff, team_id,
                   all_matches, seen_events, endpoint_success_count, matches, posted,
                   last_resp, paused, processed, failed>>

\* fetch_matches from `soup = BeautifulSoup(html, "lxml")` on: _extract_matches raises
\* NameError (_extract_jsonld is not defined) when the cards give no event
globo_page_done(events) ==
    IF events = <<>>
    THEN /\ pc' = "raised"
         /\ result' = "raised"
         /\ UNCHANGED <<all_matches, matches>>
    ELSE /\ pc' = "done"
         /\ result' = "return"
         /\ all_matches' = globo_filtered(events, date_from, date_to)
         /\ matches' = all_matches'

\* fetch_matches from the return of _load_ge_page on (html: zero or one page)
globo_loaded(html) ==
    IF html = <<>>
    THEN /\ pc' = "done"
         /\ result' = "return"
         /\ UNCHANGED <<all_matches, matches>>
    ELSE globo_page_done(_extract_matches_from_dom(GloboPages[html[1]]))

\* _load_ge_page with GE_OFFLINE=1 and a cache file, which may be empty: no request
ge_globo_offline ==
    /\ prog = "ge_globo"
    /\ pc = "fetch"
    /\ attempt = 1
    /\ \E cache \in GloboCaches : globo_loaded(cache)
    /\ UNCHANGED <<call, prog, teams, date_from, date_to, ti, ep, attempt, backoff, team_id,
                   seen_events, endpoint_success_count, posted, last_resp, paused,
                   processed, failed>>

\* one GET of _load_ge_page: the page is processed; a RequestException leads to the
\* second attempt, and after it to the cache file
ge_globo_load_page_GET ==
    /\ prog = "ge_globo"
    /\ pc = "fetch"
    /\ attempt \in 1..2
    /\ \E i \in 1..Len(GloboResponses) :
          /\ last_resp' = Seen(GloboResponses[i], "page")
          /\ IF GloboResponses[i].kind = "ok"
             THEN /\ globo_loaded(GloboResponses[i].page)
                  /\ UNCHANGED <<attempt, failed>>
             ELSE IF attempt < 2
             THEN /\ attempt' = attempt + 1
                  /\ UNCHANGED <<pc, result, all_matches, matches, failed>>
             ELSE /\ \E cache \in GloboCaches : globo_loaded(cache)
                  /\ failed' = {1}
                  /\ UNCHANGED attempt
    /\ UNCHANGED <<call, prog, teams, date_from, date_to, ti, ep, backoff, team_id, seen_events,
                   endpoint_success_count, posted, paused, processed>>

NextGeGlobo == ge_globo_import \/ ge_globo_offline \/ ge_globo_load_page_GET

-----------------------------------------------------------------------------
(* The program: one run of one entry point *)

Init == InitMain \/ InitSofaScore \/ InitFlashScore \/ InitGeMineiro \/ InitGeGlobo

Next == NextMain \/ NextSofaScore \/ NextFlashScore \/ NextGeMineiro \/ NextGeGlobo

Spec == Init /\ [][Next]_vars

-----------------------------------------------------------------------------
(* Single calls of the functions of the code: a call is drawn with its arguments, and *)
(* the steps apply the function as the code does                                      *)

\* no entry point runs while a single function is called
IdleWith(configured) ==
    /\ prog = "none"
    /\ pc = "idle"
    /\ teams = configured
    /\ date_from = ProviderWindow.from
    /\ date_to = ProviderWindow.to
    /\ ti = 1
    /\ ep = 1
    /\ attempt = 1
    /\ backoff = 0
    /\ team_id = 0
    /\ all_matches = <<>>
    /\ seen_events = {}
    /\ endpoint_success_count = 0
    /\ matches = <<>>
    /\ posted = <<>>
    /\ result = "running"
    /\ last_resp = NoResp
    /\ paused = 0
    /\ processed = <<>>
    /\ failed = {}

\* no entry point runs and no team is configured
Idle == IdleWith(<<>>)

run_vars == <<prog, pc, teams, date_from, date_to, ti, ep, attempt, backoff, team_id,
              all_matches, seen_events, endpoint_success_count, matches, posted, result,
              last_resp, paused, processed, failed>>

\* the four functions that give a team name its canonical form
Canonicalizers == {"canonicalize", "_canonicalize_team", "_normalize_name", "_canonical_name"}

\* the alias table a canonicalizer reads
alias_table(fn) ==
    CASE fn = "canonicalize" -> GLOBO_TEAM_ALIASES
      [] fn = "_canonicalize_team" -> FLASH_TEAM_ALIASES
      [] fn = "_normalize_name" -> SOFA_TEAM_CANONICAL
      [] fn = "_canonical_name" -> GE_TEAM_ALIASES

\* the canonicalizer fn applied to the name x
canonicalizer(fn, x) ==
    CASE fn = "canonicalize" -> canonicalize(x)
      [] fn = "_canonicalize_team" -> _canonicalize_team(x)
      [] fn = "_normalize_name" -> _normalize_name(x)
      [] fn = "_canonical_name" -> _canonical_name(x)

\* names a page or a payload can carry: spellings of the alias tables and variants of
\* them, names that hold an alias, misspellings, names of other teams, blank text
ScrapedNames ==
    <<<<"A", "t", "l", "e_acute", "t", "i", "c", "o", "-", "M", "G">>,
      <<"a", "t", "l", "e", "t", "i", "c", "o", " ", "m", "i", "n", "e", "i", "r", "o">>,
      <<"g", "a", "l", "o">>,
      <<"C", "r", "u", "z", "e", "i", "r", "o", " ", "E", "C">>,
      <<"A", "m", "e_acute", "r", "i", "c", "a", " ", "M", "i", "n", "e", "i", "r", "o">>,
      <<"C", "r", "u", "z", "e", "i", "r", "o", " ", "S", "u", "b", "-", "2", "0">>,
      <<"c", "r", "u", "z", "e", "i", "r">>,
      <<"a", "m", "e", "r", "i", "k", "a">>,
      <<"B", "e", "t", "i", "m">>,
      <<" ", "B", "e", "t", "i", "m", " ">>,
      <<" ", " ">>,
      <<"A", "t", "l", "e", "t", "i", "c", "o", "-", "M", "G">>,
      <<"C", "r", "u", "z", "e", "i", "r", "o">>,
      <<"A", "m", "e", "r", "i", "c", "a", "-", "M", "G">>,
      <<"A", "T", "L", "E", "T", "I", "C", "O", " ", "M", "I", "N", "E", "I", "R", "O">>,
      <<"C", "r", "u", "z", "e", "i", "r", "o", " ", " ", "E", "C">>,
      <<"C", "o", "e", "l", "h", "o">>>>

\* a call of a canonicalizer on a name: x the argument, y the result, z the result of
\* the canonicalizer on y
InitCanonicalizer ==
    /\ Idle
    /\ \E fn \in Canonicalizers : \E i \in 1..Len(ScrapedNames) :
          call = [fn |-> fn, stage |-> "called", x |-> ScrapedNames[i], y |-> <<>>, z |-> <<>>]

call_canonicalizer ==
    /\ call.fn \in Canonicalizers
    /\ call.stage = "called"
    /\ call' = [call EXCEPT !.stage = "returned", !.y = canonicalizer(call.fn, call.x)]
    /\ UNCHANGED run_vars

call_canonicalizer_again ==
    /\ call.fn \in Canonicalizers
    /\ call.stage = "returned"
    /\ call' = [call EXCEPT !.stage = "returned twice", !.z = canonicalizer(call.fn, call.y)]
    /\ UNCHANGED run_vars

-----------------------------------------------------------------------------
(* Single calls of the year resolvers *)

\* windows of a call: a calendar year, a window across the new year, the half year of
\* the provider runs, a window across the new year into a leap year, ten days of a month,
\* a window over three calendar years
ResolverWindows ==
    <<[from |-> Date(2026, 1, 1), to |-> Date(2026, 12, 31)],
      [from |-> Date(2025, 12, 20), to |-> Date(2026, 1, 10)],
      ProviderWindow,
      [from |-> Date(2027, 11, 15), to |-> Date(2028, 3, 1)],
      [from |-> Date(2026, 3, 10), to |-> Date(2026, 3, 20)],
      [from |-> Date(2025, 12, 20), to |-> Date(2027, 1, 10)]>>

\* day and month numbers a \d{1,2} group can give, the impossible 0, 32 and 13 included
TokenDays == 0..32
TokenMonths == 0..13

\* time tokens: an afternoon, the default of a card without time, an impossible hour,
\* text after the minutes, a blank before the hour
TimeTokens ==
    <<<<"1", "6", ":", "0", "0">>, <<"0", "0", ":", "0", "0">>, <<"2", "4", ":", "0", "0">>,
      <<"1", "6", ":", "0", "0", "h">>, <<" ", "1", "6", ":", "0", "0">>>>

\* the date token of a card for a day and a month
date_token_of(day, month) == pad2(day) \o <<"/">> \o pad2(month)

\* the ways a date token can write its two numbers so that int() still reads them:
\* plain digits, an underscore between the digits, a sign and white space
DateSpellings == {"plain", "underscore", "signed"}

\* two digits with an underscore between them
underscored(digits) == <<digits[1], "_", digits[2]>>

\* the date token for a day and a month in a spelling
date_token_spelled(spelling, day, month) ==
    IF spelling = "underscore" THEN underscored(pad2(day)) \o <<"/">> \o underscored(pad2(month))
    ELSE IF spelling = "signed" THEN <<"+">> \o pad2(day) \o <<"/", " ">> \o pad2(month)
    ELSE date_token_of(day, month)

\* a call of a resolver: the year it chose (0: none) and the timestamp it gave (zero or
\* one datetime)
ResolverCall(fn, spelling, day, month, time_token, window) ==
    [fn |-> fn, stage |-> "called", spelling |-> spelling, day |-> day, month |-> month,
     time_token |-> time_token,
     from |-> window.from, to |-> window.to, year |-> 0, out |-> <<>>]

InitResolver ==
    /\ Idle
    /\ \E day \in TokenDays : \E month \in TokenMonths : \E w \in 1..Len(ResolverWindows) :
          \/ call = ResolverCall("_infer_year", "plain", day, month, <<>>, ResolverWindows[w])
          \/ \E t \in 1..Len(TimeTokens) : \E spelling \in DateSpellings :
                /\ spelling # "plain" => t = 1
                /\ call = ResolverCall("_build_datetime_from_tokens", spelling, day, month,
                                       TimeTokens[t], ResolverWindows[w])

\* datetime(day_year, month, day, 12, 0) and TZ.localize of _parse_text_item: zero
\* (ValueError) or one datetime
text_item_datetime(year, month, day) ==
    IF ValidDate(year, month, day)
    THEN <<localize(DateTime(year, month, day, 12, 0, 0, FALSE, 0))>>
    ELSE <<>>

\* _infer_year on the day and month of a text item, and the timestamp _parse_text_item
\* builds with the year
call_infer_year ==
    /\ call.fn = "_infer_year"
    /\ call.stage = "called"
    /\ call' = [call EXCEPT
                  !.stage = "returned",
                  !.year = _infer_year(call.day, call.month, call.from, call.to),
                  !.out = text_item_datetime(
                              _infer_year(call.day, call.month, call.from, call.to),
                              call.month, call.day)]
    /\ UNCHANGED run_vars

\* the year of the timestamp a resolver gave, 0 for none
year_of(out) == IF out = <<>> THEN 0 ELSE out[1].y

\* _build_datetime_from_tokens on the date token and the time token of a card
call_build_datetime_from_tokens ==
    /\ call.fn = "_build_datetime_from_tokens"
    /\ call.stage = "called"
    /\ call' = [call EXCEPT
                  !.stage = "returned",
                  !.out = _build_datetime_from_tokens(
                             date_token_spelled(call.spelling, call.day, call.month),
                             call.time_token, call.from, call.to),
                  !.year = year_of(_build_datetime_from_tokens(
                                       date_token_spelled(call.spelling, call.day, call.month),
                                       call.time_token, call.from, call.to))]
    /\ UNCHANGED run_vars

-----------------------------------------------------------------------------
(* Single calls of the timestamp normalisers on a timestamp with a UTC offset *)

\* days, clock hours, minutes and UTC offsets (in hours) of the reported timestamps
ReportedDays == {Date(2026, 1, 1), Date(2026, 3, 15), Date(2026, 6, 30)}
ReportedHours == {0, 2, 16, 23}
ReportedMinutes == {0, 30}
ReportedOffsets == {-5, -3, 0, 2, 24}

\* the ISO text of an aware datetime, as the pages and the API report it
isoformat(dt) ==
    str(dt.y) \o <<"-">> \o pad2(dt.m) \o <<"-">> \o pad2(dt.d) \o <<"T">> \o pad2(dt.h)
    \o <<":">> \o pad2(dt.mi) \o <<":">> \o pad2(dt.s)
    \o (IF dt.off < 0 THEN <<"-">> \o pad2(0 - dt.off) ELSE <<"+">> \o pad2(dt.off))
    \o <<":", "0", "0">>

Normalisers == {"normalize_datetime", "_convert_event", "_normalize_event"}

InitNormaliser ==
    /\ Idle
    /\ \E fn \in Normalisers : \E day \in ReportedDays : \E h \in ReportedHours :
       \E mi \in ReportedMinutes : \E off \in ReportedOffsets :
          call = [fn |-> fn, stage |-> "called",
                  ts |-> DateTime(day.y, day.m, day.d, h, mi, 0, TRUE, off),
                  raised |-> FALSE, out |-> <<>>]

\* ge_globo_mineiro_provider._normalize_event on an event that carries match_datetime,
\* startDate or startTime (raw_datetime, "" when it has none): an outcome with zero or
\* one record, or the ValueError of dt.astimezone(TZ), which stands outside the try
globo_normalize_raw_event(event, raw_datetime, dfrom, dto) ==
    IF raw_datetime = <<>> \/ dateparser_parse(raw_datetime) = <<>>
    THEN Returned(globo_normalize_event(event, dfrom, dto))
    ELSE IF astimezone_raises(dateparser_parse(raw_datetime)[1]) THEN Raised("ValueError")
    ELSE Returned(globo_event_at(event, dateparser_parse(raw_datetime),
                                 canonicalize(event.home_team),
                                 canonicalize(event.away_team)))

\* the match_datetime of zero or one record
match_datetime_of(record) == IF record = <<>> THEN <<>> ELSE <<record[1].match_datetime>>

\* the normaliser of each source on the reported timestamp: the outcome of the call,
\* with zero or one record
normalised_by(fn, ts) ==
    CASE fn = "normalize_datetime" ->
            Returned(IF normalize_datetime(IsoTs(ts)) = <<>> THEN <<>>
                     ELSE <<[match_datetime |-> normalize_datetime(IsoTs(ts))[1]]>>)
      [] fn = "_convert_event" ->
            _convert_event(GeEvent(S_SportsEvent, J_str(isoformat(ts)), Named(S_Cruzeiro),
                                   Named(S_Betim), J_null))
      [] fn = "_normalize_event" ->
            globo_normalize_raw_event(
                [home_team |-> S_Cruzeiro, away_team |-> S_Betim, date |-> <<>>,
                 time |-> <<>>, stadium |-> <<>>],
                isoformat(ts), ProviderWindow.from, ProviderWindow.to)

call_normaliser ==
    /\ call.fn \in Normalisers
    /\ call.stage = "called"
    /\ call' = [call EXCEPT
                  !.stage = "returned",
                  !.raised = normalised_by(call.fn, call.ts).kind = "raised",
                  !.out = match_datetime_of(returned(normalised_by(call.fn, call.ts)))]
    /\ UNCHANGED run_vars

-----------------------------------------------------------------------------
(* Single calls of the page extraction of ge_globo and FlashScore *)

\* an event as ld+json or an embedded script of a ge.globo.com page can describe it
EVENT_embedded ==
    [home_team |-> S_Cruzeiro, away_team |-> S_Betim, date |-> <<"2", "0", "/", "0", "3">>,
     time |-> <<"1", "9", ":", "0", "0">>, stadium |-> <<>>]

\* what the ld+json, and the embedded scripts, of a page hold: nothing or one event
EmbeddedEvents == {<<>>, <<EVENT_embedded>>}

FlashPageList ==
    <<[cards |-> <<>>, text |-> TEXT_none],
      [cards |-> <<CARD_full>>, text |-> TEXT_two],
      [cards |-> <<>>, text |-> TEXT_mixed],
      [cards |-> <<>>, text |-> TEXT_invalid],
      [cards |-> <<CARD_full>>, text |-> TEXT_none]>>

InitExtraction ==
    /\ Idle
    /\ \/ \E i \in 1..Len(GloboPages) : \E ld \in EmbeddedEvents : \E sc \in EmbeddedEvents :
             call = [fn |-> "_extract_matches", stage |-> "called", page |-> i,
                     json_ld |-> ld, scripted |-> sc,
                     attempted |-> <<>>, raised |-> FALSE, out |-> <<>>]
       \/ \E i \in 1..Len(FlashPageList) :
             call = [fn |-> "_parse_flashscore_matches", stage |-> "called", page |-> i,
                     attempted |-> <<>>, raised |-> FALSE, out |-> <<>>]

\* ge_globo_mineiro_provider._extract_matches from the return of
\* _extract_matches_from_dom on: the name _extract_jsonld is not defined, so the call
\* after an empty result raises NameError
extract_matches_after_dom(dom_matches) ==
    IF dom_matches # <<>>
    THEN [attempted |-> <<"_extract_matches_from_dom">>, raised |-> FALSE,
          out |-> dom_matches]
    ELSE [attempted |-> <<"_extract_matches_from_dom", "_extract_jsonld">>, raised |-> TRUE,
          out |-> <<>>]

call_extract_matches ==
    /\ call.fn = "_extract_matches"
    /\ call.stage = "called"
    /\ call' = [call EXCEPT
                  !.stage = "returned",
                  !.attempted = extract_matches_after_dom(
                                    _extract_matches_from_dom(GloboPages[call.page])).attempted,
                  !.raised = extract_matches_after_dom(
                                 _extract_matches_from_dom(GloboPages[call.page])).raised,
                  !.out = extract_matches_after_dom(
                              _extract_matches_from_dom(GloboPages[call.page])).out]
    /\ UNCHANGED run_vars

\* the strategies _parse_flashscore_matches runs on a page
flashscore_attempted(page, dfrom, dto) ==
    IF parse_cards(page.cards, dfrom, dto) # <<>>
    THEN <<"_parse_match_card">>
    ELSE <<"_parse_match_card", "_parse_flashscore_text_fallback">>

call_parse_flashscore_matches ==
    /\ call.fn = "_parse_flashscore_matches"
    /\ call.stage = "called"
    /\ call' = [call EXCEPT
                  !.stage = "returned",
                  !.attempted = flashscore_attempted(FlashPageList[call.page], ProviderWindow.from, ProviderWindow.to),
                  !.raised = _parse_flashscore_matches(FlashPageList[call.page],
                                                       ProviderWindow.from, ProviderWindow.to).kind = "raised",
                  !.out = IF _parse_flashscore_matches(FlashPageList[call.page],
                                                       ProviderWindow.from, ProviderWindow.to).kind = "raised"
                          THEN <<>>
                          ELSE _parse_flashscore_matches(FlashPageList[call.page],
                                                         ProviderWindow.from, ProviderWindow.to).matches]
    /\ UNCHANGED run_vars

-----------------------------------------------------------------------------
(* Single calls of FreeFootballAPIClient._get *)

\* bodies of the responses: resp.text
ResponseTexts ==
    {<<>>, <<"N", "o", "t", " ", "F", "o", "u", "n", "d">>,
     <<"u", "p", "s", "t", "r", "e", "a", "m", " ", "e", "r", "r", "o", "r">>,
     [i \in 1..301 |-> IF i = 301 THEN "!" ELSE "e"]}

\* what session.get can come back with in a call of _get
GetResponses ==
    SearchResponses \cup {Resp("http", c, FALSE, <<>>) : c \in {400, 503}}

\* resp.text[:300]
text_head(text) == SubSeq(text, 1, IF Len(text) < 300 THEN Len(text) ELSE 300)

InitGet ==
    /\ Idle
    /\ call = [fn |-> "_get", stage |-> "called", attempt |-> 1, backoff |-> 2,
               requests |-> 0, slept |-> <<>>,
               resp |-> Resp("none", 0, FALSE, <<>>), text |-> <<>>,
               outcome |-> "none", value |-> <<>>, message |-> <<>>]

\* the call of _get after the response resp with body text to its GET, o being the
\* outcome of the iteration: the loop sleeps and goes on, or the call ends by a return
\* or an exception (message: the response text the RuntimeError of a failed status
\* carries; SystemExit(1) carries none, the body of a 403 is only logged)
get_after(c, resp, text, o) ==
    IF o = "retry"
    THEN [c EXCEPT !.attempt = c.attempt + 1, !.backoff = c.backoff * 2,
                   !.requests = c.requests + 1, !.slept = Append(c.slept, c.backoff),
                   !.resp = resp, !.text = text]
    ELSE [c EXCEPT !.stage = "returned", !.requests = c.requests + 1,
                   !.resp = resp, !.text = text, !.outcome = o,
                   !.value = IF o = "return" THEN resp.data ELSE <<>>,
                   !.message = IF o = "RuntimeErrorStatus" THEN text_head(text) ELSE <<>>]

\* one GET of the retry loop of _get
call_get_request ==
    /\ call.fn = "_get"
    /\ call.stage = "called"
    /\ \E resp \in GetResponses : \E text \in ResponseTexts :
          call' = get_after(call, resp, text, _get(resp, call.attempt))
    /\ UNCHANGED run_vars

-----------------------------------------------------------------------------
(* Single calls of the normalisers on two raw events of one source *)

S_SofaScore == <<"S", "o", "f", "a", "S", "c", "o", "r", "e">>
S_FlashScore == <<"F", "l", "a", "s", "h", "S", "c", "o", "r", "e">>

\* the values of a record that the external_id is said to depend on, with its external_id
Keyed(external_id, competition, record, venue) ==
    [external_id |-> external_id, competition |-> competition,
     match_datetime |-> record.match_datetime, home_team |-> record.home_team,
     away_team |-> record.away_team, venue |-> venue]

\* ge.globo.com: a card with a stadium, the same game in an embedded payload with a full
\* timestamp and other spellings, the card without stadium, another game
GloboRawEvents ==
    <<[event |-> [home_team |-> S_Cruzeiro, away_team |-> S_Galo, date |-> <<"1", "5", "/", "0", "3">>,
                  time |-> <<"1", "6", ":", "0", "0">>, stadium |-> S_Mineirao],
       raw_datetime |-> <<>>],
      [event |-> [home_team |-> <<"c", "r", "u", "z", "e", "i", "r", "o">>, away_team |-> <<"A", "t", "l", "e_acute", "t", "i", "c", "o", "-", "M", "G">>,
                  date |-> <<>>, time |-> <<>>, stadium |-> S_Mineirao],
       raw_datetime |-> <<"2", "0", "2", "6", "-", "0", "3", "-", "1", "5", "T", "1", "9", ":", "0", "0", ":", "0", "0", "+", "0", "0", ":", "0", "0">>],
      [event |-> [home_team |-> S_Cruzeiro, away_team |-> S_Galo, date |-> <<"1", "5", "/", "0", "3">>,
                  time |-> <<"1", "6", ":", "0", "0">>, stadium |-> <<>>],
       raw_datetime |-> <<>>],
      [event |-> [home_team |-> S_Cruzeiro, away_team |-> S_Betim, date |-> <<"2", "2", "/", "0", "3">>,
                  time |-> <<"1", "8", ":", "3", "0">>, stadium |-> <<>>],
       raw_datetime |-> <<>>]>>

\* FlashScore: a card with an event id, and items of the text of the page, one with an
\* accented name
FlashRawEvents ==
    <<[strategy |-> "card", card |-> CARD_full, item |-> <<>>],
      [strategy |-> "text", card |-> CARD_full, item |-> <<"1", "5", ".", "0", "3", ".", " ", "C", "r", "u", "z", "e", "i", "r", "o", " ", "v", " ", "G", "a", "l", "o">>],
      [strategy |-> "text", card |-> CARD_full, item |-> <<"1", "5", "/", "3", " ", "c", "r", "u", "z", "e", "i", "r", "o", " ", "x", " ", "G", "a", "l", "o">>],
      [strategy |-> "text", card |-> CARD_full, item |-> <<"2", "2", ".", "0", "3", ".", " ", "B", "e", "t", "i", "m", " ", "v", " ", "C", "r", "u", "z", "e", "i", "r", "o">>],
      [strategy |-> "text", card |-> CARD_full, item |-> <<"2", "9", ".", "0", "3", ".", " ", "B", "e", "t", "i", "m", " ", "v", " ", "A", "t", "l", "e_acute", "t", "i", "c", "o", "-", "M", "G">>]>>

\* SofaScore: an event, the same game listed under another id, another game, a game
\* reported with a long and an accented name
SofaRawEvents ==
    <<SE_a,
      SofaEvent(<<14>>, <<1773601200>>, SofaTeam(S_Cruzeiro, <<>>), SofaTeam(S_AtleticoMG, <<>>)),
      SE_late,
      SofaEvent(<<15>>, <<1774206000>>, SofaTeam(<<"C", "r", "u", "z", "e", "i", "r", "o", " ", "E", "C">>, <<>>),
                SofaTeam(S_AtleticoMG_acc, <<>>))>>

\* RapidAPI: a fixture, the same game listed under another id, another game, a game
\* reported with blanks around a name
MainRawEvents ==
    <<F_a1,
      Fixture(109, IsoTs(DateTime(2026, 3, 15, 16, 0, 0, TRUE, -3)), T_cruzeiro, T_atletico, "NS"),
      F_b,
      Fixture(110, IsoTs(DateTime(2026, 3, 22, 18, 30, 0, TRUE, -3)),
              TeamInfo(<<" ", "B", "e", "t", "i", "m", " ">>, 77), T_cruzeiro, "NS")>>

Sources == {"ge_globo", "flashscore", "sofascore", "main"}

RawEventCount(source) ==
    CASE source = "ge_globo" -> Len(GloboRawEvents)
      [] source = "flashscore" -> Len(FlashRawEvents)
      [] source = "sofascore" -> Len(SofaRawEvents)
      [] source = "main" -> Len(MainRawEvents)

\* the record _normalize_event of ge_globo returns, with COMPETITION_NAME
globo_keyed(record) ==
    IF record = <<>> THEN <<>>
    ELSE <<Keyed(record[1].external_id, S_COMPETITION_NAME, record[1], record[1].venue)>>

\* the record of a card or of a text item of FlashScore; neither carries a competition
\* or a venue on the pages of the model
flash_keyed_card(record) ==
    IF record = <<>> THEN <<>>
    ELSE <<Keyed(record[1].external_id, S_FlashScore, record[1], <<>>)>>

flash_keyed_item(parsed) ==
    IF parsed.kind # "match" THEN <<>>
    ELSE <<Keyed(parsed.match.external_id, S_FlashScore, parsed.match, <<>>)>>

\* the record _normalize_event of SofaScore returns for an event without tournament and
\* venue: COMPETITION_FALLBACK and ""
sofa_keyed(record) ==
    IF record = <<>> THEN <<>>
    ELSE <<Keyed(record[1].external_id, S_SofaScore, record[1], <<>>)>>

\* the record normalize_fixture returns for a fixture without league and venue
main_keyed(record) ==
    IF record = <<>> THEN <<>>
    ELSE <<Keyed(record[1].external_id, <<>>, record[1], <<>>)>>

\* zero or one record of raw event number i of the source
record_of(source, i) ==
    CASE source = "ge_globo" ->
            globo_keyed(returned(globo_normalize_raw_event(
                                     GloboRawEvents[i].event, GloboRawEvents[i].raw_datetime,
                                     ProviderWindow.from, ProviderWindow.to)))
      [] source = "flashscore" ->
            IF FlashRawEvents[i].strategy = "card"
            THEN flash_keyed_card(_parse_match_card(FlashRawEvents[i].card,
                                                    ProviderWindow.from, ProviderWindow.to))
            ELSE flash_keyed_item(_parse_text_item(FlashRawEvents[i].item,
                                                   ProviderWindow.from, ProviderWindow.to))
      [] source = "sofascore" -> sofa_keyed(sofa_normalize_event(SofaRawEvents[i]))
      [] source = "main" -> main_keyed(normalize_fixture(MainRawEvents[i]))

InitRecordPair ==
    /\ Idle
    /\ \E source \in Sources : \E a \in 1..RawEventCount(source) :
       \E b \in 1..RawEventCount(source) :
          call = [fn |-> "normalise pair", stage |-> "called", source |-> source,
                  a |-> a, b |-> b, ra |-> <<>>, rb |-> <<>>]

\* the normaliser of the source on the first raw event
call_normalise_first ==
    /\ call.fn = "normalise pair"
    /\ call.stage = "called"
    /\ call' = [call EXCEPT !.stage = "first", !.ra = record_of(call.source, call.a)]
    /\ UNCHANGED run_vars

\* the normaliser of the source on the second raw event
call_normalise_second ==
    /\ call.fn = "normalise pair"
    /\ call.stage = "first"
    /\ call' = [call EXCEPT !.stage = "returned", !.rb = record_of(call.source, call.b)]
    /\ UNCHANGED run_vars

-----------------------------------------------------------------------------
(* Single calls of the target-team filters *)

\* names a payload or a page reports for the home and the away team
ReportedNames ==
    {S_Cruzeiro, <<"C", "r", "u", "z", "e", "i", "r", "o", " ", "E", "C">>, S_AtleticoMG, S_AtleticoMG_acc,
     <<"C", "r", "u", "z", "e", "i", "r", "o", " ", "S", "u", "b", "-", "2", "0">>, S_Brazil}

FilterSources == {"sofascore", "flashscore", "ge_globo", "main"}

\* the providers test a record against all the configured teams; main tests a fixture
\* against the team whose fetch returned it (team: its place in cfg.teams, 0 for a
\* provider)
InitFilter ==
    /\ \E configured \in GloboTeamLists : IdleWith(configured)
    /\ \E source \in FilterSources : \E home \in ReportedNames : \E away \in ReportedNames :
       \E team \in 0..Len(teams) :
          /\ source = "main" <=> team > 0
          /\ call = [fn |-> "target filter", stage |-> "called", source |-> source,
                     team |-> team, home |-> home, away |-> away, kept |-> FALSE]

\* the team name the normaliser of the source puts into the record
name_in_record(source, name) ==
    CASE source = "sofascore" -> name
      [] source = "flashscore" -> _canonicalize_team(name)
      [] source = "ge_globo" -> canonicalize(name)
      [] source = "main" -> name

\* the test of the source on a record inside the window: is it one of a target team
\* (of team number team of cfg.teams in the loop of main)
is_target_record(source, team, record) ==
    CASE source \in {"sofascore", "flashscore"} ->
            \/ _normalized_key(record.home_team) \in target_keys
            \/ _normalized_key(record.away_team) \in target_keys
      [] source = "ge_globo" -> globo_is_target_match(record)
      [] source = "main" -> event_matches_team(record, teams[team])

call_target_filter ==
    /\ call.fn = "target filter"
    /\ call.stage = "called"
    /\ call' = [call EXCEPT
                  !.stage = "returned",
                  !.kept = is_target_record(
                               call.source, call.team,
                               [home_team |-> name_in_record(call.source, call.home),
                                away_team |-> name_in_record(call.source, call.away)])]
    /\ UNCHANGED run_vars

-----------------------------------------------------------------------------
(* Single calls of the normalisers on a game whose page gives a day and no time *)

UntimedSources == {"ge_globo", "flashscore"}

\* the days of the first half of 2026, all inside ProviderWindow
UntimedDays == 1..28
UntimedMonths == 1..6

\* the strings of a card of ge.globo.com that gives the day and the teams
untimed_card_lines(day, month) ==
    <<date_token_of(day, month) \o <<" ", "bullet">>, <<"C", "r", "u", "z", "e", "i", "r", "o", " ", "x", " ", "B", "e", "t", "i", "m">>>>

\* an item of the text of a FlashScore page
untimed_text_item(day, month) ==
    pad2(day) \o <<".">> \o pad2(month) \o <<".", " ", "C", "r", "u", "z", "e", "i", "r", "o", " ", "v", " ", "B", "e", "t", "i", "m">>

InitUntimed ==
    /\ Idle
    /\ \E source \in UntimedSources : \E day \in UntimedDays : \E month \in UntimedMonths :
          call = [fn |-> "untimed record", stage |-> "called", source |-> source,
                  day |-> day, month |-> month, out |-> <<>>]

\* _parse_section_matches and fetch_matches of ge_globo on one card: _parse_game_card,
\* then _normalize_event
globo_card_record(text, lines, dfrom, dto) ==
    IF game_card_parsed(text, lines) = <<>> THEN <<>>
    ELSE match_datetime_of(globo_normalize_event(game_card_parsed(text, lines)[1], dfrom, dto))

\* the match_datetime of the outcome of _parse_text_item
text_item_match_datetime(parsed) ==
    IF parsed.kind = "match" THEN <<parsed.match.match_datetime>> ELSE <<>>

call_normalise_untimed ==
    /\ call.fn = "untimed record"
    /\ call.stage = "called"
    /\ call' = [call EXCEPT
                  !.stage = "returned",
                  !.out = IF call.source = "ge_globo"
                          THEN globo_card_record(
                                   Join(untimed_card_lines(call.day, call.month), <<" ">>),
                                   untimed_card_lines(call.day, call.month),
                                   ProviderWindow.from, ProviderWindow.to)
                          ELSE text_item_match_datetime(
                                   _parse_text_item(untimed_text_item(call.day, call.month),
                                                    ProviderWindow.from, ProviderWindow.to))]
    /\ UNCHANGED run_vars

-----------------------------------------------------------------------------
(* Single calls of _collect_events_from_json of the two GE providers *)

\* keys _collect_events_from_json of ge_globo descends into
GLOBO_EVENT_KEYS == <<"@graph", "graph", "events", "event", "itemListElement", "matches">>

\* ge_globo_mineiro_provider._collect_events_from_json
globo_collect_events_from_json(payload) == collect_events(payload, GLOBO_EVENT_KEYS)

\* _collect_events_from_json of a provider
collected_by(fn, payload) ==
    IF fn = "ge_mineiro" THEN ge_collect_events_from_json(payload)
    ELSE globo_collect_events_from_json(payload)

Collectors == {"ge_mineiro", "ge_globo"}

\* the events a payload of the model carries
PayloadEvents == <<GE_a, GE_ws, GE_edge>>

\* the events of a payload, by their numbers in PayloadEvents: none, one or two
PayloadEventLists ==
    {<<>>} \cup {<<i>> : i \in 1..3} \cup {ids \in (1..3) \X (1..3) : ids[1] # ids[2]}

\* the shapes of a payload: where it keeps its events
PayloadShapes ==
    {"list", "@graph", "events.event", "matches", "itemListElement.item", "subEvent",
     "mainEntity", "text", "type list"}

events_numbered(ids) == [i \in 1..Len(ids) |-> PayloadEvents[ids[i]]]

S_WebPage == <<"W", "e", "b", "P", "a", "g", "e">>
S_ItemList == <<"I", "t", "e", "m", "L", "i", "s", "t">>
S_ListItem == <<"L", "i", "s", "t", "I", "t", "e", "m">>

\* an ItemList of schema.org: each event is the "item" of a ListItem
list_items(events) ==
    [i \in 1..Len(events) |->
        J_dict(<<<<"@type", J_str(S_ListItem)>>, <<"item", events[i]>>>>)]

\* the payload of a shape with the events
payload_of(shape, events) ==
    CASE shape = "list" -> J_list(events)
      [] shape = "@graph" ->
            J_dict(<<<<"@graph", J_list(<<J_dict(<<<<"@type", J_str(S_WebPage)>>>>)>> \o events)>>>>)
      [] shape = "events.event" ->
            J_dict(<<<<"events", J_dict(<<<<"event", J_list(events)>>>>)>>>>)
      [] shape = "matches" -> J_dict(<<<<"matches", J_list(events)>>>>)
      [] shape = "itemListElement.item" ->
            J_dict(<<<<"@type", J_str(S_ItemList)>>,
                     <<"itemListElement", J_list(list_items(events))>>>>)
      [] shape = "subEvent" ->
            IF events = <<>> THEN J_dict(<<<<"@type", J_str(S_WebPage)>>>>)
            ELSE J_dict(Head(events).v \o <<<<"subEvent", J_list(Tail(events))>>>>)
      [] shape = "mainEntity" ->
            J_dict(<<<<"@type", J_str(S_WebPage)>>, <<"mainEntity", J_list(events)>>>>)
      [] shape = "text" -> J_str(S_WebPage)
      [] shape = "type list" ->
            J_dict(<<<<"@type", J_list(<<J_str(S_WebPage), J_str(S_ItemList)>>)>>,
                     <<"@graph", J_list(events)>>>>)

\* the startDate texts of a list of events: what tells the events of the model apart
start_dates(events) == [i \in 1..Len(events) |-> json_get(events[i], "startDate").v]

InitCollector ==
    /\ Idle
    /\ \E fn \in Collectors : \E shape \in PayloadShapes : \E ids \in PayloadEventLists :
          call = [fn |-> fn, stage |-> "called", shape |-> shape, ids |-> ids,
                  raised |-> FALSE, out |-> <<>>]

call_collect_events_from_json ==
    /\ call.fn \in Collectors
    /\ call.stage = "called"
    /\ call' = [call EXCEPT
                  !.stage = "returned",
                  !.raised =
                      collected_by(call.fn, payload_of(call.shape, events_numbered(call.ids))).kind
                      = "raised",
                  !.out = start_dates(returned(collected_by(
                              call.fn, payload_of(call.shape, events_numbered(call.ids)))))]
    /\ UNCHANGED run_vars

-----------------------------------------------------------------------------
(* Single calls of the record loops on a page with one item that cannot be dated *)

BatchSources == {"ge_globo", "flashscore"}

\* what is wrong with the third game of the page: its day is no day of the calendar
\* (2026 is no leap year), its time is no time of the day (a card of ge.globo.com
\* only; the text items of FlashScore carry no time), or nothing
BatchFaults == {"31/02", "29/02", "25:00", "none"}

\* where the third game stands among the games of the page
BatchPositions == 1..3

\* the day and month of the games of the page
batch_day(fault) ==
    CASE fault = "31/02" -> <<31, 2>>
      [] fault = "29/02" -> <<29, 2>>
      [] OTHER -> <<29, 3>>

\* the games of the page in order: the days 15/03 and 22/03, and the third game
batch_games(fault, pos) ==
    CASE pos = 1 -> <<batch_day(fault), <<15, 3>>, <<22, 3>>>>
      [] pos = 2 -> <<<<15, 3>>, batch_day(fault), <<22, 3>>>>
      [] pos = 3 -> <<<<15, 3>>, <<22, 3>>, batch_day(fault)>>

\* the strings of card number k of ge.globo.com
batch_card_lines(fault, pos, k) ==
    IF k = pos /\ fault = "25:00"
    THEN <<date_token_of(29, 3) \o <<" ", "bullet", " ", "2", "5", ":", "0", "0", " ", "bullet">>, <<"C", "r", "u", "z", "e", "i", "r", "o", " ", "x", " ", "B", "e", "t", "i", "m">>>>
    ELSE untimed_card_lines(batch_games(fault, pos)[k][1], batch_games(fault, pos)[k][2])

\* the loops of _parse_section_matches and fetch_matches of ge_globo over the cards
\* from number k on: the match_datetime of the records
RECURSIVE batch_card_records(_, _, _)
batch_card_records(fault, pos, k) ==
    IF k > 3 THEN <<>>
    ELSE globo_card_record(Join(batch_card_lines(fault, pos, k), <<" ">>),
                           batch_card_lines(fault, pos, k),
                           ProviderWindow.from, ProviderWindow.to)
         \o batch_card_records(fault, pos, k + 1)

\* the text of the FlashScore page
batch_text(games) ==
    <<"U", "p", "c", "o", "m", "i", "n", "g", " ", "m", "a", "t", "c", "h", "e", "s", ":", " ">> \o untimed_text_item(games[1][1], games[1][2]) \o <<",", " ">>
    \o untimed_text_item(games[2][1], games[2][2]) \o <<",", " ">>
    \o untimed_text_item(games[3][1], games[3][2]) \o <<" ", "S", "h", "o", "w", " ", "m", "o", "r", "e">>

\* the match_datetime of the records
match_datetimes(records) == [i \in 1..Len(records) |-> records[i].match_datetime]

\* the outcome of _parse_flashscore_text_fallback: the match_datetime of the records
\* it returns, or the exception it raises
fallback_outcome(outcome) ==
    IF outcome.kind = "return"
    THEN [kind |-> "return", what |-> "", out |-> match_datetimes(outcome.matches)]
    ELSE [kind |-> "raised", what |-> outcome.what, out |-> <<>>]

InitBatch ==
    /\ Idle
    /\ \E source \in BatchSources : \E fault \in BatchFaults : \E pos \in BatchPositions :
          /\ source = "flashscore" => fault # "25:00"
          /\ call = [fn |-> "record loop", stage |-> "called", source |-> source,
                     fault |-> fault, pos |-> pos,
                     outcome |-> [kind |-> "none", what |-> "", out |-> <<>>]]

call_record_loop ==
    /\ call.fn = "record loop"
    /\ call.stage = "called"
    /\ call' = [call EXCEPT
                  !.stage = "returned",
                  !.outcome =
                      IF call.source = "ge_globo"
                      THEN [kind |-> "return", what |-> "",
                            out |-> batch_card_records(call.fault, call.pos, 1)]
                      ELSE fallback_outcome(
                               _parse_flashscore_text_fallback(
                                   batch_text(batch_games(call.fault, call.pos)),
                                   ProviderWindow.from, ProviderWindow.to))]
    /\ UNCHANGED run_vars

-----------------------------------------------------------------------------
(* Single calls: the specification *)

InitCalls ==
    InitCanonicalizer \/ InitResolver \/ InitNormaliser \/ InitExtraction \/ InitGet
    \/ InitRecordPair \/ InitFilter \/ InitUntimed \/ InitCollector \/ InitBatch

NextCalls ==
    \/ call_canonicalizer
    \/ call_canonicalizer_again
    \/ call_infer_year
    \/ call_build_datetime_from_tokens
    \/ call_normaliser
    \/ call_extract_matches
    \/ call_parse_flashscore_matches
    \/ call_get_request
    \/ call_normalise_first
    \/ call_normalise_second
    \/ call_target_filter
    \/ call_normalise_untimed
    \/ call_collect_events_from_json
    \/ call_record_loop

Calls == InitCalls /\ [][NextCalls]_vars

-----------------------------------------------------------------------------
(* Properties of the RapidAPI run *)

\* a GET was issued in this step
IssuedGet == last_resp' # last_resp

\* 1, 2, ..., n
UpTo(n) == [i \in 1..n |-> i]

IsPrefix(a, b) == Len(a) <= Len(b) /\ SubSeq(b, 1, Len(a)) = a

\* C1: in the RapidAPI run a 403 response to any GET (team search or fixtures, any team)
\* ends the run at once: the process exits, no team is processed after it, no further
\* GET is issued and post_matches is never called.
C1_Forbidden_AbortsRun ==
    /\ [](prog = "main" /\ last_resp.code = 403
            => pc = "exited" /\ result = "exit1" /\ posted = <<>>)
    /\ [][prog = "main" /\ last_resp.code = 403
            => UNCHANGED <<last_resp, ti, processed, posted, all_matches>>]_vars

\* a 403 on a fixtures request of the second team, after the first team left matches
C1_Witness ==
    /\ prog = "main"
    /\ last_resp.code = 403
    /\ last_resp.phase = "fetch"
    /\ last_resp.team = 2
    /\ all_matches # <<>>

\* C3: a 404 on a team-search request never aborts the run: the next search endpoint is
\* tried; after the last one the fallback id map is consulted; only a team without a
\* fallback id is skipped, and the loop goes on with the next team.
C3_NotFound_FallsThrough ==
    [][prog = "main" /\ pc = "search" /\ IssuedGet /\ last_resp'.code = 404
        => /\ pc' \notin {"exited", "raised"}
           /\ result' = result
           /\ IF ep < SEARCH_ATTEMPTS
              THEN pc' = "search" /\ ti' = ti /\ ep' = ep + 1 /\ attempt' = 1
              ELSE IF DEFAULT_TEAM_IDS(Lower(Strip(teams[ti]))) # 0
              THEN /\ pc' = "fetch" /\ ti' = ti /\ ep' = 1
                   /\ team_id' = DEFAULT_TEAM_IDS(Lower(Strip(teams[ti])))
              ELSE /\ ti' = ti + 1
                   /\ pc' = (IF ti < Len(teams) THEN "search" ELSE "finish")
                   /\ (ti < Len(teams) => processed' = Append(processed, ti + 1))]_vars

\* the last search endpoint of team 1 answered 404, team 1 has no fallback id and was
\* skipped, and the run is at team 2
C3_Witness ==
    /\ prog = "main"
    /\ last_resp.code = 404
    /\ last_resp.phase = "search"
    /\ last_resp.ep = SEARCH_ATTEMPTS
    /\ last_resp.team = 1
    /\ ti = 2
    /\ pc = "search"

\* C4: post_matches is called at most once per run, and only once every configured team
\* has been processed or skipped; nothing is sent while a team is pending.
C4_PostOnceAfterAllTeams ==
    prog = "main" =>
        /\ Len(posted) <= 1
        /\ posted # <<>> =>
              /\ pc = "done"
              /\ ti = Len(teams) + 1
              /\ processed = UpTo(Len(teams))

\* a batch was posted at the end of a run over two teams
C4_Witness ==
    /\ prog = "main"
    /\ Len(posted) = 1
    /\ Len(teams) = 2
    /\ processed = <<1, 2>>

\* C5: a non-fatal failure while processing a team (id unresolvable, no fixtures from any
\* endpoint, timeouts or connection errors or 429 exhausted, 5xx) leaves the run alive:
\* only a 403 ends it, the loop moves to the next team in configured order, and the
\* matches accumulated so far are kept.
C5_RecoverableFailure_RunContinues ==
    /\ [](prog = "main" =>
            /\ pc # "raised"
            /\ (pc = "exited" => last_resp.code = 403)
            /\ IsPrefix(processed, UpTo(Len(teams)))
            /\ (pc \in {"finish", "done"} => processed = UpTo(Len(teams))))
    /\ [][prog = "main" =>
            /\ IsPrefix(all_matches, all_matches')
            /\ (IssuedGet /\ last_resp'.code # 403 => pc' \in {"search", "fetch", "finish"})
            /\ (failed' # failed =>
                  /\ all_matches' = all_matches
                  /\ ti' = ti + 1
                  /\ pc' = (IF ti < Len(teams) THEN "search" ELSE "finish"))]_vars

\* team 1 left matches, team 2 failed recoverably, and the run reached its end with the
\* matches of team 1
C5_Witness ==
    /\ prog = "main"
    /\ failed = {2}
    /\ processed = <<1, 2>>
    /\ all_matches # <<>>
    /\ pc = "finish"
    /\ last_resp.kind = "timeout"

FirstIndex(l, id) == CHOOSE i \in 1..Len(l) : l[i].external_id = id /\
                        \A j \in 1..Len(l) : l[j].external_id = id => i <= j

LastIndex(l, id) == CHOOSE i \in 1..Len(l) : l[i].external_id = id /\
                        \A j \in 1..Len(l) : l[j].external_id = id => j <= i

Ids(l) == {l[i].external_id : i \in 1..Len(l)}

\* C8: the dedup step of main yields exactly one record per distinct external_id of the
\* accumulated list, each the last record of the list with that id, placed in the order
\* in which the ids first occurred.
C8_Dedup_LastWins_FirstSeenOrder ==
    prog = "main" /\ pc = "done" =>
        /\ Ids(matches) = Ids(all_matches)
        /\ \A i, j \in 1..Len(matches) :
              i # j => matches[i].external_id # matches[j].external_id
        /\ \A i \in 1..Len(matches) :
              matches[i] = all_matches[LastIndex(all_matches, matches[i].external_id)]
        /\ \A i, j \in 1..Len(matches) :
              i < j => FirstIndex(all_matches, matches[i].external_id)
                       < FirstIndex(all_matches, matches[j].external_id)

\* the accumulated list held x1, y, x2 with x1 and x2 two different records of one id
C8_Witness ==
    /\ prog = "main"
    /\ pc = "done"
    /\ \E i, j, k \in 1..Len(all_matches) :
          /\ i < j /\ j < k
          /\ all_matches[i].external_id = all_matches[k].external_id
          /\ all_matches[i] # all_matches[k]
          /\ all_matches[j].external_id # all_matches[i].external_id

\* C9: the dedup step of main applied to its own output returns the same records in the
\* same order.
C9_Dedup_Idempotent ==
    prog = "main" /\ pc = "done" => dedup(matches) = matches

\* the dedup step removed a duplicate and kept records of two ids
C9_Witness ==
    /\ prog = "main"
    /\ pc = "done"
    /\ Len(matches) >= 2
    /\ Len(matches) < Len(all_matches)

\* the response to the GET of this step is one _get retries after: a timeout, a
\* connection error or a 429
Retriable == last_resp'.kind \in {"timeout", "neterr"} \/ last_resp'.code = 429

\* the step ends with _get back at the top of its retry loop, for the same request
Retried == pc' = pc /\ ti' = ti /\ ep' = ep /\ attempt' = attempt + 1

\* seconds slept after the failure of attempt number n: 2, 4, 8, ...
RECURSIVE BackoffAfter(_)
BackoffAfter(n) == IF n <= 1 THEN 2 ELSE 2 * BackoffAfter(n - 1)

\* C17: one call of _get issues at most retry_max requests and so always ends; it tries
\* again only after a timeout, a connection error or a 429, after sleeping a backoff of
\* 2 seconds that doubles with every retry; after the failure of attempt retry_max it
\* raises without sleeping again.
C17_Get_BoundedRetriesWithBackoff ==
    /\ [](prog = "main" => attempt \in 1..retry_max /\ last_resp.attempt <= retry_max)
    /\ [][prog = "main" /\ IssuedGet
            => /\ last_resp'.attempt = attempt
               /\ (Retried <=> Retriable /\ attempt < retry_max)
               /\ (Retried => paused' = BackoffAfter(attempt) * 1000)
               /\ (~Retried => attempt' \in {1, attempt})
               /\ (Retriable /\ attempt = retry_max => paused' = 0)]_vars

\* the third GET of a fixtures request was answered 429, after two retries
C17_Witness ==
    /\ prog = "main"
    /\ last_resp.phase = "fetch"
    /\ last_resp.attempt = retry_max
    /\ last_resp.code = 429
    /\ paused = 0

-----------------------------------------------------------------------------
(* Properties of the providers *)

\* the run is the fetch_matches of a provider that requests one resource per team
PerTeamProvider == prog \in {"sofascore", "flashscore"}

\* C2: in the SofaScore and FlashScore providers a 403 response to the fetch of one team
\* aborts the whole run of the provider: no request is issued after it (the remaining
\* teams are not fetched) and no record is returned.
C2_Forbidden_AbortsProvider ==
    [][(PerTeamProvider /\ last_resp.code = 403) => (~IssuedGet /\ matches' = <<>>)]_vars

\* the run of a source returned its records: they are in matches
Emitted == pc = "done"

\* the day of a normalised match_datetime
MatchDay(record) ==
    Date(record.match_datetime[1], record.match_datetime[2], record.match_datetime[3])

\* C6: every record a source emits (the RapidAPI run, FlashScore, SofaScore, the JSON-LD
\* provider and the ge.globo.com page provider) has a match_datetime whose day lies in
\* the window from date_from to date_to, both ends included.
C6_Emitted_InWindow ==
    Emitted => \A i \in 1..Len(matches) : InWindow(MatchDay(matches[i]), date_from, date_to)

\* C7: every record a source emits has a home team and an away team that are not empty
\* once the surrounding whitespace is removed.
C7_Emitted_TeamsNotBlank ==
    Emitted => \A i \in 1..Len(matches) :
                   /\ Strip(matches[i].home_team) # <<>>
                   /\ Strip(matches[i].away_team) # <<>>

\* C10: in the list a source emits no two records have the same external_id.
C10_Emitted_IdsDistinct ==
    Emitted => \A i, j \in 1..Len(matches) :
                   i # j => matches[i].external_id # matches[j].external_id

-----------------------------------------------------------------------------
(* Properties of single calls *)

\* C11: each canonicalizer (canonicalize of ge_globo, _canonicalize_team of FlashScore,
\* _normalize_name of SofaScore, _canonical_name of ge_mineiro) is idempotent: applied to
\* its own result for a non-empty name it returns that result again, whether the name was
\* matched exactly, as a substring, as a close match, or not at all.
C11_Canonicalizer_Idempotent ==
    call.fn \in Canonicalizers /\ call.stage = "returned twice" /\ call.x # <<>>
        => call.z = call.y

\* canonicalize matched a misspelt name as a close match and was applied to the result
C11_Witness ==
    /\ call.fn = "canonicalize"
    /\ call.stage = "returned twice"
    /\ call.x = <<"c", "r", "u", "z", "e", "i", "r">>
    /\ call.y = S_Cruzeiro

\* the text without case, diacritics, whitespace and punctuation
Spelling(s) == KeepChars(Lower(StripMarks(s)), SeqRange(LowerChars) \cup SeqRange(DigitChars))

\* C12: canonicalization is alias-consistent in every provider: a name that is a key of
\* the provider's alias table, or differs from a key only in case, diacritics, whitespace
\* or punctuation, canonicalizes to the canonical name the table gives that key.
C12_Canonicalizer_AliasConsistent ==
    call.fn \in Canonicalizers /\ call.stage = "returned"
        => \A i \in 1..Len(alias_table(call.fn)) :
               Spelling(call.x) = Spelling(alias_table(call.fn)[i][1])
                   => call.y = alias_table(call.fn)[i][2]

\* a call of one of the year resolvers has returned
ResolverReturned ==
    call.fn \in {"_infer_year", "_build_datetime_from_tokens"} /\ call.stage = "returned"

\* the years that put the day and month of the call inside its window
YearsInWindow ==
    {y \in call.from.y..call.to.y :
        ValidDate(y, call.month, call.day)
        /\ InWindow(Date(y, call.month, call.day), call.from, call.to)}

\* the time token of the call is one strptime reads with "%H:%M" (FlashScore has none)
TimeTokenValid ==
    call.fn = "_build_datetime_from_tokens"
        => time_token_numbers(call.time_token) # <<>>

\* C13: for a day/month token without a year and a window whose ends lie in the same or in
\* consecutive years, _infer_year and _build_datetime_from_tokens choose a year that puts
\* the date inside the window whenever such a year exists: 15/03 in 2026-01-01..2026-12-31
\* gives 2026-03-15, and 05/01 in 2025-12-20..2026-01-10 gives 2026.
C13_Resolver_PicksYearInWindow ==
    ResolverReturned /\ call.to.y - call.from.y \in {0, 1} /\ YearsInWindow # {}
        => /\ call.year \in YearsInWindow
           /\ call.out # <<>>
           /\ DateOf(call.out[1]) = Date(call.year, call.month, call.day)

\* C13 (amended): the same holds whenever the time token given to
\* _build_datetime_from_tokens is a clock time strptime reads with "%H:%M" (one or two
\* digits of an hour up to 23, a colon, one or two digits of a minute up to 59, nothing
\* after them); with any other time token (24:00, 16:00h) _build_datetime_from_tokens
\* returns no timestamp at all, whether or not a year puts the date inside the window.
\* _infer_year takes no time token and always chooses the year.
C13_Resolver_PicksYearInWindow_ClockTime ==
    /\ ResolverReturned /\ TimeTokenValid /\ call.to.y - call.from.y \in {0, 1}
       /\ YearsInWindow # {}
           => /\ call.year \in YearsInWindow
              /\ call.out # <<>>
              /\ DateOf(call.out[1]) = Date(call.year, call.month, call.day)
    /\ ResolverReturned /\ ~TimeTokenValid => call.out = <<>>

\* _build_datetime_from_tokens resolved 05/01 with the time token 16:00 in the window
\* 2025-12-20..2026-01-10
C13_Witness ==
    /\ call.fn = "_build_datetime_from_tokens"
    /\ call.stage = "returned"
    /\ call.day = 5 /\ call.month = 1
    /\ call.time_token = <<"1", "6", ":", "0", "0">>
    /\ call.from = Date(2025, 12, 20) /\ call.to = Date(2026, 1, 10)
    /\ call.year = 2026
    /\ DateOf(call.out[1]) = Date(2026, 1, 5)

\* C14: every timestamp a resolver returns, for any date token, time token and window,
\* has its day inside the window.
C14_Resolved_InWindow ==
    ResolverReturned /\ call.out # <<>>
        => InWindow(DateOf(call.out[1]), call.from, call.to)

\* C15: when an event reports a full timestamp with a UTC offset, the match_datetime of
\* the record shows the clock hour and minute of the reported timestamp, whatever the
\* offset: the hour is not shifted by the difference to the local zone.
C15_Normalised_KeepsClock ==
    call.fn \in Normalisers /\ call.stage = "returned" /\ call.out # <<>>
        => call.out[1][4] = call.ts.h /\ call.out[1][5] = call.ts.mi

\* the strategies of the extraction of the call, in the order structured data, DOM
\* heuristic, text fallback (FlashScore has no structured-data strategy)
ExtractionStrategies ==
    IF call.fn = "_extract_matches"
    THEN <<"_extract_jsonld", "_extract_matches_from_dom", "_extract_matches_from_scripts">>
    ELSE <<"_parse_match_card", "_parse_flashscore_text_fallback">>

\* the events each of these strategies finds on the page of the call
StrategyFinds ==
    IF call.fn = "_extract_matches"
    THEN <<call.json_ld, _extract_matches_from_dom(GloboPages[call.page]), call.scripted>>
    ELSE <<parse_cards(FlashPageList[call.page].cards, ProviderWindow.from, ProviderWindow.to),
           _parse_flashscore_text_fallback(FlashPageList[call.page].text,
                                           ProviderWindow.from, ProviderWindow.to).matches>>

\* how many strategies run when each runs exactly if all before it found nothing
RECURSIVE StrategiesDue(_, _)
StrategiesDue(finds, n) ==
    IF n = Len(finds) \/ finds[n] # <<>> THEN n ELSE StrategiesDue(finds, n + 1)

\* C16: the extraction of a page runs its strategies in the order structured data, DOM
\* heuristic, text fallback; a strategy runs exactly when every strategy before it found
\* no event, and the events returned are those of the first strategy that found some.
C16_Extraction_InPriorityOrder ==
    call.fn \in {"_extract_matches", "_parse_flashscore_matches"} /\ call.stage = "returned"
    /\ ~call.raised
        => /\ call.attempted = SubSeq(ExtractionStrategies, 1, StrategiesDue(StrategyFinds, 1))
           /\ call.out = StrategyFinds[StrategiesDue(StrategyFinds, 1)]

\* the last response of the call of _get is an HTTP response with a status in codes
GotStatus(codes) ==
    call.fn = "_get" /\ call.requests > 0 /\ call.resp.kind = "http" /\ call.resp.code \in codes

\* C18: _get ends on the response, without another request, with FileNotFoundError for
\* a 404, with a RuntimeError that carries the response body for any other status >= 400
\* except 403 and 429, with a different RuntimeError for a successful response whose
\* body is not JSON, and with the parsed body for a successful response whose body is
\* JSON.
C18_Get_ClassifiesWithoutRetry ==
    /\ GotStatus({404})
          => call.stage = "returned" /\ call.outcome = "FileNotFoundError"
    /\ GotStatus(400..599 \ {403, 404, 429})
          => /\ call.stage = "returned"
             /\ call.outcome = "RuntimeErrorStatus"
             /\ call.message = call.text
    /\ GotStatus(200..399) /\ ~call.resp.json
          => call.stage = "returned" /\ call.outcome = "RuntimeErrorJson"
    /\ GotStatus(200..399) /\ call.resp.json
          => /\ call.stage = "returned"
             /\ call.outcome = "return"
             /\ call.value = call.resp.data
    /\ call.fn = "_get" /\ call.stage = "returned" => call.requests = call.attempt

\* C18 (amended): as above, except that the RuntimeError of a failed status carries the
\* first 300 characters of the response body, the whole body only when it is no longer
\* than that.
C18_Get_ClassifiesCarryingHead ==
    /\ GotStatus({404})
          => call.stage = "returned" /\ call.outcome = "FileNotFoundError"
    /\ GotStatus(400..599 \ {403, 404, 429})
          => /\ call.stage = "returned"
             /\ call.outcome = "RuntimeErrorStatus"
             /\ call.message = SubSeq(call.text, 1,
                                      IF Len(call.text) > 300 THEN 300 ELSE Len(call.text))
    /\ GotStatus(200..399) /\ ~call.resp.json
          => call.stage = "returned" /\ call.outcome = "RuntimeErrorJson"
    /\ GotStatus(200..399) /\ call.resp.json
          => /\ call.stage = "returned"
             /\ call.outcome = "return"
             /\ call.value = call.resp.data
    /\ call.fn = "_get" /\ call.stage = "returned" => call.requests = call.attempt

\* the third GET of a call, after a timeout and a 429, was answered 503 with a body of
\* 301 characters, and the RuntimeError carries 300 of them
C18_Witness ==
    /\ call.fn = "_get"
    /\ call.stage = "returned"
    /\ call.requests = 3
    /\ call.slept = <<2, 4>>
    /\ call.resp.code = 503
    /\ call.outcome = "RuntimeErrorStatus"
    /\ Len(call.text) = 301
    /\ Len(call.message) = 300

\* two raw events of one source were normalised and both gave a record
BothEmitted ==
    call.fn = "normalise pair" /\ call.stage = "returned" /\ call.ra # <<>> /\ call.rb # <<>>

\* the two records agree on competition, home, away, timestamp and venue (the source tag
\* is the same within a source)
SameKey ==
    /\ call.ra[1].competition = call.rb[1].competition
    /\ call.ra[1].home_team = call.rb[1].home_team
    /\ call.ra[1].away_team = call.rb[1].away_team
    /\ call.ra[1].match_datetime = call.rb[1].match_datetime
    /\ call.ra[1].venue = call.rb[1].venue

\* C19: within one source the external_id depends only on source tag, competition, home,
\* away, timestamp and venue: two emitted records that agree on all six have the same
\* external_id, whatever strategy produced them and whatever else the raw events hold.
C19_ExternalId_FunctionOfKey ==
    BothEmitted /\ SameKey => call.ra[1].external_id = call.rb[1].external_id

\* the alias table of a source (the RapidAPI path has none)
SourceAliases ==
    CASE call.source = "ge_globo" -> GLOBO_TEAM_ALIASES
      [] call.source = "flashscore" -> FLASH_TEAM_ALIASES
      [] call.source = "sofascore" -> SOFA_TEAM_CANONICAL
      [] call.source = "main" -> <<>>

\* a team name of a record is trimmed, and is the canonical name if it spells an alias
NameAsEmitted(name) ==
    /\ name = Strip(name)
    /\ \A i \in 1..Len(SourceAliases) :
          Spelling(name) = Spelling(SourceAliases[i][1]) => name = SourceAliases[i][2]

\* C20: in every emitted record of every source home_team and away_team are the
\* canonical name when the scraped name matches an alias of a target team and the trimmed
\* original text otherwise; a raw spelling of a target team is never emitted.
C20_Emitted_NamesCanonical ==
    call.fn = "normalise pair" /\ call.stage = "returned" /\ call.ra # <<>>
        => NameAsEmitted(call.ra[1].home_team) /\ NameAsEmitted(call.ra[1].away_team)

\* the canonical form the source gives a team name (the RapidAPI path has only
\* normalize_team_key)
CanonicalIn(source, name) ==
    CASE source = "sofascore" -> _normalize_name(name)
      [] source = "flashscore" -> _canonicalize_team(name)
      [] source = "ge_globo" -> canonicalize(name)
      [] source = "main" -> normalize_team_key(name)

\* the name canonicalizes to one of the configured teams
IsTargetName(source, name) ==
    \E i \in 1..Len(teams) : CanonicalIn(source, name) = CanonicalIn(source, teams[i])

\* C21: the target-team filter of every source decides on canonicalized names: a fixture
\* in the window is kept exactly when its home or its away team canonicalizes to a
\* configured team, under whatever alias spelling it is reported.
C21_Filter_OnCanonicalNames ==
    call.fn = "target filter" /\ call.stage = "returned"
        => (call.kept <=> IsTargetName(call.source, call.home)
                          \/ IsTargetName(call.source, call.away))

\* the least element of a non-empty set of years
FirstYear(years) == CHOOSE y \in years : \A z \in years : y <= z

\* C22: for a day/month token without a year the resolver tries every calendar year from
\* date_from.year to date_to.year in ascending order and accepts the first whose date is
\* in the window, so a date that is in the window only in an intermediate year of a
\* window over three or more years is resolved to that year.
C22_Resolver_TriesEveryYear ==
    ResolverReturned /\ TimeTokenValid /\ YearsInWindow # {}
        => /\ call.year = FirstYear(YearsInWindow)
           /\ call.out # <<>>
           /\ DateOf(call.out[1]) = Date(call.year, call.month, call.day)

\* C23: when no year puts the day and month inside the window, the resolver builds the
\* date with the year of the start of the window, in _build_datetime_from_tokens and in
\* the year inference of FlashScore alike.
C23_Resolver_FallsBackToStartYear ==
    ResolverReturned /\ TimeTokenValid /\ YearsInWindow = {}
    /\ ValidDate(call.from.y, call.month, call.day)
        => /\ call.year = call.from.y
           /\ call.out # <<>>
           /\ DateOf(call.out[1]) = Date(call.from.y, call.month, call.day)

\* C24: a record of a game whose time is unknown is emitted with the time 00:00:00, in
\* every extraction path: the cards of ge.globo.com and the text items of FlashScore
C24_UnknownTime_Midnight ==
    call.fn = "untimed record" /\ call.stage = "returned" /\ call.out # <<>>
        => call.out[1][4] = 0 /\ call.out[1][5] = 0 /\ call.out[1][6] = 0

\* every object of a payload, at any depth and under any key, that is typed SportsEvent
\* or Event
RECURSIVE EventsAnywhere(_)
RECURSIVE EventsOfItems(_)
RECURSIVE EventsOfValues(_)
EventsAnywhere(payload) ==
    IF payload.t = "list" THEN EventsOfItems(payload.v)
    ELSE IF payload.t = "dict"
    THEN (IF is_event(payload) = "True" THEN <<payload>> ELSE <<>>)
         \o EventsOfValues(payload.v)
    ELSE <<>>

EventsOfItems(items) ==
    IF items = <<>> THEN <<>>
    ELSE EventsAnywhere(Head(items)) \o EventsOfItems(Tail(items))

EventsOfValues(items) ==
    IF items = <<>> THEN <<>>
    ELSE EventsAnywhere(Head(items)[2]) \o EventsOfValues(Tail(items))

Occurrences(x, list) == Cardinality({i \in 1..Len(list) : list[i] = x})

\* C25: _collect_events_from_json returns every object typed SportsEvent or Event, at
\* any depth and under any key of the payload, each exactly once, and [] when there is
\* none; it never raises
C25_Collector_FindsEveryEvent ==
    call.fn \in Collectors /\ call.stage = "returned"
        => /\ ~call.raised
           /\ \A i \in 1..Len(PayloadEvents) :
                 Occurrences(start_dates(PayloadEvents)[i], call.out)
                 = Occurrences(start_dates(PayloadEvents)[i],
                               start_dates(EventsAnywhere(
                                   payload_of(call.shape, events_numbered(call.ids)))))

\* the days of the games of the page that can be dated, in the order of the page
DatableDays(games) ==
    SelectSeq(games, LAMBDA g : ValidDate(ProviderWindow.from.y, g[2], g[1]))

\* C26: an item with an invalid calendar date or a malformed time is dropped alone: the
\* loop returns the records of the other items of the page and raises nothing
C26_BadItem_DroppedAlone ==
    call.fn = "record loop" /\ call.stage = "returned"
        => /\ call.outcome.kind = "return"
           /\ Len(call.outcome.out)
              = Len(DatableDays(batch_games(call.fault, call.pos)))
                - (IF call.fault = "25:00" THEN 1 ELSE 0)
           /\ \A i \in 1..Len(call.outcome.out) :
                 <<call.outcome.out[i][3], call.outcome.out[i][2]>>
                 \in {<<15, 3>>, <<22, 3>>} \cup
                     (IF call.fault = "none" THEN {<<29, 3>>} ELSE {})

\* C27: in a run of main, every outbound GET after the first comes after an explicit
\* pause: when a request has been made and another one is due, the run has slept since
C27_Main_PausesBetweenGets ==
    prog = "main" /\ last_resp # NoResp /\ pc \in {"search", "fetch"} => paused > 0

\* the latest request was one of fetch_fixtures and ended in a 404 or in another error
\* that is not fatal: a 500, or a timeout, a network error or a 429 on the last attempt
FixturesRequestFailed ==
    /\ last_resp.phase = "fetch"
    /\ \/ last_resp.kind = "http" /\ last_resp.code \in {404, 500}
       \/ /\ last_resp.attempt = retry_max
          /\ last_resp.kind \in {"timeout", "neterr"} \/ last_resp.code = 429

\* C28: fetch_fixtures tries its four endpoint shapes in order: a request that ends in a
\* 404 or another non-fatal error is followed by the request of the next shape for the
\* same team, and after the fourth the call returns [] without raising
C28_FetchFixtures_TriesFourShapes ==
    [][prog = "main" /\ pc = "fetch" /\ FixturesRequestFailed'
          => IF ep < FIXTURE_ATTEMPTS
             THEN /\ pc' = "fetch"
                  /\ ti' = ti
                  /\ ep' = ep + 1
                  /\ endpoint_success_count' = endpoint_success_count
             ELSE /\ endpoint_success_count' = endpoint_success_count + 1
                  /\ result' = result]_vars

\* C29: main returns 1, with nothing posted, exactly when no team completed a fixtures
\* fetch: the run returns 1 only at its end and only with no completed fetch, it returns
\* 0 or posts only after one, and a fixtures request that fails completes no fetch
C29_Main_Returns1_IffNoFetchCompleted ==
    [][prog = "main"
          => /\ pc = "finish" => (result' = "return1" <=> endpoint_success_count = 0)
             /\ result' = "return1" => posted' = <<>> /\ (result = "return1" \/ pc = "finish")
             /\ pc = "fetch" /\ FixturesRequestFailed'
                   => endpoint_success_count' = endpoint_success_count
             /\ endpoint_success_count' # endpoint_success_count
                   => /\ pc = "fetch"
                      /\ last_resp'.kind = "http" /\ last_resp'.code = 200]_vars

\* a run whose team ids resolved and whose fixtures requests all failed has returned 1
C29_Witness ==
    /\ prog = "main"
    /\ result = "return1"
    /\ teams # <<>>
    /\ last_resp.phase = "fetch"
    /\ FixturesRequestFailed

\* the page has a card with a date token and the names of both teams
HasDatedCard(page) ==
    \E i \in 1..Len(page.cards) :
        /\ page.cards[i].date_token # <<>>
        /\ page.cards[i].home # <<>>
        /\ page.cards[i].away # <<>>

\* C30: on a FlashScore page with a card that has a recognizable date token and both
\* team names, _parse_match_card yields a record and the text fallback is not used
C30_Flash_CardYieldsRecord ==
    call.fn = "_parse_flashscore_matches" /\ call.stage = "returned"
    /\ HasDatedCard(FlashPageList[call.page])
        => /\ call.attempted = <<"_parse_match_card">>
           /\ ~call.raised
           /\ call.out # <<>>

====
